---- MODULE Spec2Model ----
(***************************************************************************)
(* Model of the majowuji training tracker: the record store (db), the      *)
(* muscle-load tracker, the exercise recommender and the goal calculator.  *)
(* Spec is the bot around the recommender; SpecGoal applies the goal       *)
(* calculator and SpecTracker the muscle tracker to bounded logs.          *)
(*                                                                         *)
(* Time is counted in ticks since an arbitrary UTC midnight; there are     *)
(* TicksPerHour ticks in an hour.  An exercise name is represented by the  *)
(* exercise id of its catalog entry (names and ids are both unique in the  *)
(* catalog, src/src/exercises.rs:94-384).  The two name literals of        *)
(* recommender.rs:80 and :161 are the names of the catalog entries         *)
(* taiji_shadow and taiji_shadow_weapon (recommender.rs is stored          *)
(* double-encoded; decoded, the literals read exactly as                   *)
(* exercises.rs:147 and :167).                                             *)
(***************************************************************************)
EXTENDS Integers, Sequences, FiniteSets, TLC

VARIABLES
    db,       \* the rows of table trainings.  A table is a bag of rows: it
              \* is kept as a sequence in one fixed order (see add_training),
              \* so that two tables of the same rows are the same state
    now,      \* the wall clock (Utc::now()), in ticks
    rec,      \* the last result of Recommender::get_recommendation
    asked,    \* the underworked groups the tracker returned in that call
    session,  \* the recommendations followed one after the other today
    goal,     \* the last result of GoalCalculator::calculate
    tracker,  \* the last MuscleTracker built and what its queries returned
    core,     \* the last core computation applied to the log: the trainings
              \* it was given and what the caller holds of them afterwards
    dialogue, \* the logging dialogue of the bot with one user
    compared  \* the two SessionContexts compute_similarity was applied to
              \* and what it returned

vars == <<db, now, rec, asked, session, goal, tracker, core, dialogue, compared>>

----------------------------------------------------------------------------
(* Bounds of the model *)

TicksPerHour == 2
MaxTicks == 2
MaxRows == 10
MaxChosen == 1

HOUR == TicksPerHour
DAY == 24 * HOUR

----------------------------------------------------------------------------
(* The catalog, src/src/exercises.rs *)

MuscleGroup_all ==
    <<"Chest", "Shoulders", "Triceps", "Back", "Biceps", "Core", "Glutes",
      "Quads", "Hamstrings", "Calves", "FullBody">>

MuscleGroups == {MuscleGroup_all[i] : i \in DOMAIN MuscleGroup_all}

Exercise(id, is_base, is_timed, muscle_groups) ==
    [id |-> id, name |-> id, is_base |-> is_base, is_timed |-> is_timed,
     muscle_groups |-> muscle_groups]

BASE_EXERCISES ==
    << Exercise("pushups_fist", TRUE, FALSE, <<"Chest", "Triceps", "Shoulders", "Core">>),
       Exercise("pushups_handles", TRUE, FALSE, <<"Chest", "Triceps", "Shoulders", "Core">>),
       Exercise("jackknife", TRUE, FALSE, <<"Core">>),
       Exercise("plank_elbows", TRUE, TRUE, <<"Core", "Shoulders">>),
       Exercise("squats_strikes", TRUE, FALSE, <<"Quads", "Glutes", "Core", "Shoulders">>),
       Exercise("taiji_shadow", TRUE, TRUE, <<"FullBody">>),
       Exercise("swimmer", TRUE, FALSE, <<"Back", "Shoulders">>),
       Exercise("taiji_shadow_weapon", TRUE, TRUE, <<"FullBody">>) >>

EXTRA_EXERCISES ==
    << Exercise("let_me_in", FALSE, FALSE, <<"Back", "Biceps", "Shoulders">>),
       Exercise("shelf_pullup", FALSE, FALSE, <<"Biceps", "Back">>),
       Exercise("calf_raises", FALSE, FALSE, <<"Calves">>),
       Exercise("romanian_deadlift", FALSE, FALSE, <<"Hamstrings", "Glutes", "Core">>),
       Exercise("side_lunges", FALSE, FALSE, <<"Quads", "Glutes", "Hamstrings">>),
       Exercise("star_jump", FALSE, FALSE, <<"Quads", "Glutes", "Hamstrings", "Calves">>),
       Exercise("pogo_jumps", FALSE, FALSE, <<"Calves">>),
       Exercise("superman", FALSE, TRUE, <<"Back", "Glutes", "Hamstrings">>),
       Exercise("russian_twist", FALSE, FALSE, <<"Core">>),
       Exercise("side_plank", FALSE, TRUE, <<"Core", "Shoulders">>),
       Exercise("t_spine_rotation", FALSE, TRUE, <<"Back">>),
       Exercise("thread_needle", FALSE, TRUE, <<"Shoulders", "Back">>),
       Exercise("child_pose", FALSE, TRUE, <<"Back", "Glutes">>),
       Exercise("pigeon_pose", FALSE, TRUE, <<"Glutes", "Hamstrings">>),
       Exercise("figure_four_twist", FALSE, TRUE, <<"Glutes", "Core">>),
       Exercise("hip_flexor_stretch", FALSE, TRUE, <<"Quads", "Core">>),
       Exercise("seated_forward_fold", FALSE, TRUE, <<"Hamstrings", "Back">>),
       Exercise("happy_baby", FALSE, TRUE, <<"Glutes", "Hamstrings">>),
       Exercise("cobra", FALSE, TRUE, <<"Core", "Back">>),
       Exercise("shadow_boxing", FALSE, TRUE, <<"FullBody">>) >>

get_base_exercises == BASE_EXERCISES

get_all_exercises == BASE_EXERCISES \o EXTRA_EXERCISES

Range(s) == {s[i] : i \in DOMAIN s}

AllNames == {get_all_exercises[i].name : i \in DOMAIN get_all_exercises}

\* get_all_exercises().into_iter().find(|e| e.name == name) as an
\* Option<&Exercise>: the index of the first entry of that name, 0 for None
find_exercise_by_name(name) ==
    IF name \in AllNames
    THEN CHOOSE i \in DOMAIN get_all_exercises :
            /\ get_all_exercises[i].name = name
            /\ \A j \in 1..(i - 1) : get_all_exercises[j].name # name
    ELSE 0

\* The names the recommender compares with, recommender.rs:80, :81, :161, :162
WARMUP_NAME == "taiji_shadow"
WARMUP_ID == "taiji_shadow"
COOLDOWN_NAME == "taiji_shadow_weapon"
COOLDOWN_ID == "taiji_shadow_weapon"

----------------------------------------------------------------------------
(* Option values *)

Some(v) == [some |-> TRUE, v |-> v]
None == [some |-> FALSE, v |-> 0]

Max(S) == CHOOSE x \in S : \A y \in S : y <= x
Min(S) == CHOOSE x \in S : \A y \in S : x <= y

----------------------------------------------------------------------------
(* The record store, src/src/db/mod.rs *)

\* struct Training; duration_secs is an Option<i32>
Training(exercise, date, reps, duration_secs) ==
    [exercise |-> exercise, date |-> date, reps |-> reps,
     duration_secs |-> duration_secs]

\* The fixed order of the rows of a table: newest first, rows of one date
\* by catalog index, reps and duration.
Before(a, b) ==
    LET key(t) == <<0 - t.date, find_exercise_by_name(t.exercise), t.reps,
                    IF t.duration_secs.some THEN 1 ELSE 0, t.duration_secs.v>>
        ka == key(a)
        kb == key(b)
    IN  \E k \in 1..5 : ka[k] < kb[k] /\ \A j \in 1..(k - 1) : ka[j] = kb[j]

RECURSIVE InsertRow(_, _)
InsertRow(rows, t) ==
    IF rows = <<>> THEN <<t>>
    ELSE IF Before(Head(rows), t) THEN <<Head(rows)>> \o InsertRow(Tail(rows), t)
    ELSE <<t>> \o rows

\* INSERT INTO trainings
add_training(rows, t) == InsertRow(rows, t)

RECURSIVE InsertDesc(_, _)
InsertDesc(sorted, t) ==
    IF sorted = <<>> THEN <<t>>
    ELSE IF t.date > Head(sorted).date THEN <<t>> \o sorted
    ELSE <<Head(sorted)>> \o InsertDesc(Tail(sorted), t)

RECURSIVE SortByDateDesc(_)
SortByDateDesc(rows) ==
    IF rows = <<>> THEN <<>>
    ELSE InsertDesc(SortByDateDesc(Tail(rows)), Head(rows))

\* SELECT ... ORDER BY date DESC
get_trainings_for_user(rows) == SortByDateDesc(rows)

----------------------------------------------------------------------------
(* Clock and calendar *)

\* date_naive() of a timestamp seen in a timezone of the given offset
date_naive(t, offset) == (t + offset) \div DAY

\* chrono::Duration::num_minutes, num_days of a difference in ticks
num_minutes(diff) == (diff * 60) \div TicksPerHour
num_days(diff) == diff \div DAY

----------------------------------------------------------------------------
(* MuscleTracker, src/src/ml/muscle_tracker.rs *)

\* targeting, with a training of no catalog entry counted as FullBody
targeting_unknown_as_full_body(trainings, group) ==
    SelectSeq(trainings, LAMBDA t :
        LET i == find_exercise_by_name(t.exercise)
        IN  IF i = 0 THEN group = "FullBody"
            ELSE \E k \in DOMAIN get_all_exercises[i].muscle_groups :
                        get_all_exercises[i].muscle_groups[k] = group)

\* the trainings whose exercise is in the catalog and targets the group
targeting(trainings, group) ==
    SelectSeq(trainings, LAMBDA t :
        LET i == find_exercise_by_name(t.exercise)
        IN  i # 0 /\ \E k \in DOMAIN get_all_exercises[i].muscle_groups :
                        get_all_exercises[i].muscle_groups[k] = group)

\* .map(|t| t.reps).sum()
RECURSIVE sum_reps(_)
sum_reps(trainings) ==
    IF trainings = <<>> THEN 0
    ELSE Head(trainings).reps + sum_reps(Tail(trainings))

\* The MuscleLoad of a group after the loop over the trainings of
\* from_trainings, muscle_tracker.rs:41-68
MuscleLoad(trainings, group, clock, offset) ==
    LET today == date_naive(clock, offset)
        week_ago == today - 7
        touching == targeting(trainings, group)
        of_today == SelectSeq(touching, LAMBDA t :
                        date_naive(t.date, offset) = today)
        of_week == SelectSeq(touching, LAMBDA t :
                        date_naive(t.date, offset) >= week_ago)
    IN  [group |-> group,
         today_volume |-> sum_reps(of_today),
         week_volume |-> sum_reps(of_week),
         last_trained |->
            IF touching = <<>> THEN None
            ELSE Some(Max({touching[i].date : i \in DOMAIN touching}))]

\* for group in MuscleGroup::all() { loads.insert(*group, ...) }, up to the
\* k-th group
RECURSIVE insert_loads(_, _, _, _)
insert_loads(trainings, clock, offset, k) ==
    LET load == MuscleGroup_all[k] :> MuscleLoad(trainings, MuscleGroup_all[k], clock, offset)
    IN  IF k = 1 THEN load
        ELSE insert_loads(trainings, clock, offset, k - 1) @@ load

\* MuscleTracker::from_trainings: the loads map
from_trainings(trainings, clock, offset) ==
    insert_loads(trainings, clock, offset, Len(MuscleGroup_all))

\* MuscleTracker::get_underworked_groups: the groups it may return.  The
\* loads are the values() of a HashMap, whose iteration order is arbitrary;
\* sort_by_key is stable, so groups of equal today_volume keep that arbitrary
\* order, FullBody is filtered out and the first `limit` are taken.  Every
\* set of `limit` groups none of which has more volume than a group left
\* out is a possible result.
get_underworked_groups(loads, limit) ==
    LET sortable == {<<loads[g].today_volume, g>> : g \in MuscleGroups \ {"FullBody"}}
        n == IF limit < Cardinality(sortable) THEN limit ELSE Cardinality(sortable)
        taken == {u \in SUBSET sortable :
                    /\ Cardinality(u) = n
                    /\ \A a \in u : \A b \in sortable \ u : a[1] <= b[1]}
    IN  {{a[2] : a \in u} : u \in taken}

\* loads.sort_by_key(|l| l.today_volume), a stable sort: the group is put
\* after every group of the same or a smaller volume
RECURSIVE InsertByVolume(_, _, _)
InsertByVolume(loads, sorted, group) ==
    IF sorted = <<>> THEN <<group>>
    ELSE IF loads[group].today_volume < loads[Head(sorted)].today_volume
         THEN <<group>> \o sorted
    ELSE <<Head(sorted)>> \o InsertByVolume(loads, Tail(sorted), group)

RECURSIVE SortByVolume(_, _, _)
SortByVolume(loads, order, k) ==
    IF k = 0 THEN <<>>
    ELSE InsertByVolume(loads, SortByVolume(loads, order, k - 1), order[k])

\* the loads in the order the map yields them
get_loads_unsorted(loads, order) == order

\* MuscleTracker::get_loads_sorted, the groups of the loads it returns;
\* order is the order in which self.loads.values() yields the groups
get_loads_sorted(loads, order) == SortByVolume(loads, order, Len(order))

\* .filter(|l| l.group != MuscleGroup::FullBody).take(limit) of
\* get_underworked_groups, on the loads get_loads_sorted returned
take_underworked(sorted, limit) ==
    LET filtered == SelectSeq(sorted, LAMBDA g : g # "FullBody")
    IN  SubSeq(filtered, 1, Min({limit, Len(filtered)}))

\* the week volumes get_balance_score collects
RECURSIVE sum_week_volumes(_, _)
sum_week_volumes(loads, k) ==
    IF k = 0 THEN 0
    ELSE sum_week_volumes(loads, k - 1)
            + (IF MuscleGroup_all[k] # "FullBody"
               THEN loads[MuscleGroup_all[k]].week_volume ELSE 0)

\* the sum over the volumes of (n * v - total)^2, which is n^2 times the
\* sum of (v - target)^2
RECURSIVE sum_squares(_, _, _, _)
sum_squares(loads, n, total, k) ==
    IF k = 0 THEN 0
    ELSE sum_squares(loads, n, total, k - 1)
            + (IF MuscleGroup_all[k] # "FullBody"
               THEN (n * loads[MuscleGroup_all[k]].week_volume - total)
                        * (n * loads[MuscleGroup_all[k]].week_volume - total)
               ELSE 0)

\* f32::sqrt cut to an integer
sqrt(x) == CHOOSE r \in 0..x : r * r <= x /\ x < (r + 1) * (r + 1)

\* get_balance_score without the return of 0.0 for total == 0: target is
\* 0.0, `target > 0.0` is false, cv is 0.0
get_balance_score_of_any_total(loads) ==
    LET n == Cardinality(MuscleGroups \ {"FullBody"})
        total == sum_week_volumes(loads, Len(MuscleGroup_all))
        squares == sum_squares(loads, n, total, Len(MuscleGroup_all))
    IN  IF total <= 0 THEN 100
        ELSE IF squares >= n * total * total THEN 0
        ELSE 100 - sqrt(((squares * 100) \div (n * total * total)) * 100)

\* MuscleTracker::get_balance_score, in percent.  cv^2 = variance / target^2
\* = squares / (n * total^2); cv is kept in hundredths, cut, and a cv of 1 or
\* more gives exactly 0.
get_balance_score(loads) ==
    LET n == Cardinality(MuscleGroups \ {"FullBody"})
        total == sum_week_volumes(loads, Len(MuscleGroup_all))
        squares == sum_squares(loads, n, total, Len(MuscleGroup_all))
    IN  IF n = 0 \/ total = 0 THEN 0
        ELSE IF total < 0 THEN 100
        ELSE IF squares >= n * total * total THEN 0
        ELSE 100 - sqrt(((squares * 100) \div (n * total * total)) * 100)

----------------------------------------------------------------------------
(* Recommender, src/src/ml/recommender.rs *)

\* confidence is an f32; it is kept here multiplied by ConfidenceScale, which
\* makes every value the code computes an integer except 0.9 and 0.3, which
\* are compared with nothing they could be confused with.
ConfidenceScale == 300

Recommendation(exercise, reason, confidence, is_bonus) ==
    [some |-> TRUE, exercise |-> exercise, reason |-> reason,
     confidence |-> confidence, is_bonus |-> is_bonus]

NoRecommendation ==
    [some |-> FALSE, exercise |-> "", reason |-> "", confidence |-> 0,
     is_bonus |-> FALSE]

\* is_done_today with the dates compared in UTC
is_done_today_utc(trainings, exercise_name, clock, offset) ==
    \E i \in DOMAIN trainings :
        /\ trainings[i].exercise = exercise_name
        /\ date_naive(trainings[i].date, 0) = date_naive(clock, 0)

\* t.exercise == name && t.date.with_timezone(&Local).date_naive() == today
is_done_today(trainings, exercise_name, clock, offset) ==
    \E i \in DOMAIN trainings :
        /\ trainings[i].exercise = exercise_name
        /\ date_naive(trainings[i].date, offset) = date_naive(clock, offset)

\* base_program_done_today satisfied by one base exercise done today
base_program_any_done_today(trainings, clock, offset) ==
    \E i \in DOMAIN get_base_exercises :
        \E k \in DOMAIN trainings :
            /\ trainings[k].exercise = get_base_exercises[i].name
            /\ date_naive(trainings[k].date, offset) = date_naive(clock, offset)

base_program_done_today(trainings, clock, offset) ==
    \A i \in DOMAIN get_base_exercises :
        is_done_today(trainings, get_base_exercises[i].name, clock, offset)

ever_done(trainings, exercise_name) ==
    \E i \in DOMAIN trainings : trainings[i].exercise = exercise_name

\* self.trainings.iter().find(|t| t.exercise == exercise_name): the first
\* training of that name in the order the trainings were given
first_training(trainings, exercise_name) ==
    LET i == CHOOSE i \in DOMAIN trainings :
                /\ trainings[i].exercise = exercise_name
                /\ \A j \in 1..(i - 1) : trainings[j].exercise # exercise_name
    IN  trainings[i]

\* rested without the hour of rest
rested_without_threshold(trainings, exercise_name, clock) ==
    \/ ~ever_done(trainings, exercise_name)
    \/ num_minutes(clock - first_training(trainings, exercise_name).date) >= 0

\* hours_since_exercise(name) >= 1.0, where hours_since_exercise is
\* num_minutes() / 60.0 of the first training of that name, f32::MAX if none
rested(trainings, exercise_name, clock) ==
    \/ ~ever_done(trainings, exercise_name)
    \/ num_minutes(clock - first_training(trainings, exercise_name).date) >= 60

\* days_since_exercise(name).unwrap_or(0)
days_since_exercise(trainings, exercise_name, clock) ==
    IF ever_done(trainings, exercise_name)
    THEN num_days(clock - first_training(trainings, exercise_name).date)
    ELSE 0

\* underworked_count counting every muscle group of the exercise
muscle_count(exercise, underworked) == Len(exercise.muscle_groups)

\* the number of the exercise's muscle groups that underworked contains
underworked_count(exercise, underworked) ==
    Cardinality({k \in DOMAIN exercise.muscle_groups :
                    exercise.muscle_groups[k] \in underworked})

\* The first element of a vector sorted in descending order of the key by a
\* stable sort: of the indexes in S, the least one whose key is the greatest
FirstOfSortedDesc(S, key(_)) ==
    LET keyed == {<<i, key(i)>> : i \in S}
        first == CHOOSE a \in keyed :
                    \A b \in keyed : a[2] > b[2] \/ (a[2] = b[2] /\ a[1] <= b[1])
    IN  first[1]

\* middle_score that is 0.3 for every exercise
middle_score_flat(exercise, underworked) == (3 * ConfidenceScale) \div 10

\* the score of a middle base exercise, recommender.rs:127-131
middle_score(exercise, underworked) ==
    LET n == underworked_count(exercise, underworked)
    IN  IF n > 0
        THEN (n * ConfidenceScale) \div Len(exercise.muscle_groups)
                + ConfidenceScale \div 2
        ELSE (3 * ConfidenceScale) \div 10

\* middle_candidates that keeps the exercises done today
middle_candidates_repeating(trainings, clock, offset) ==
    {i \in DOMAIN get_base_exercises :
        /\ get_base_exercises[i].id # WARMUP_ID
        /\ get_base_exercises[i].id # COOLDOWN_ID
        /\ rested(trainings, get_base_exercises[i].name, clock)}

\* the candidates of Priority 2, as indexes into get_base_exercises
middle_candidates(trainings, clock, offset) ==
    {i \in DOMAIN get_base_exercises :
        /\ get_base_exercises[i].id # WARMUP_ID
        /\ get_base_exercises[i].id # COOLDOWN_ID
        /\ ~is_done_today(trainings, get_base_exercises[i].name, clock, offset)
        /\ rested(trainings, get_base_exercises[i].name, clock)}

warmup_due(trainings, clock, offset) ==
    /\ ~is_done_today(trainings, WARMUP_NAME, clock, offset)
    /\ \E i \in DOMAIN get_base_exercises : get_base_exercises[i].id = WARMUP_ID
    /\ rested(trainings, WARMUP_NAME, clock)

\* cooldown_due that finds no cool-down among the base exercises
cooldown_never_due(trainings, clock, offset) == FALSE

cooldown_due(trainings, clock, offset) ==
    /\ ~is_done_today(trainings, COOLDOWN_NAME, clock, offset)
    /\ \E i \in DOMAIN get_base_exercises : get_base_exercises[i].id = COOLDOWN_ID
    /\ rested(trainings, COOLDOWN_NAME, clock)

get_base_recommendation(trainings, clock, offset, underworked) ==
    LET candidates == middle_candidates(trainings, clock, offset)
        score(i) == middle_score(get_base_exercises[i], underworked)
    IN  IF warmup_due(trainings, clock, offset)
        THEN Recommendation(WARMUP_ID, "warmup", ConfidenceScale, FALSE)
        ELSE IF candidates # {}
        THEN LET best == FirstOfSortedDesc(candidates, score)
                 ex == get_base_exercises[best]
             IN  Recommendation(ex.id,
                    IF underworked_count(ex, underworked) > 0 THEN "underworked"
                    ELSE IF ~ever_done(trainings, ex.name) THEN "never done"
                    ELSE "rested",
                    score(best), FALSE)
        ELSE IF cooldown_due(trainings, clock, offset)
        THEN Recommendation(COOLDOWN_ID, "cooldown", ConfidenceScale, FALSE)
        ELSE NoRecommendation

\* the non-base entries, as indexes into get_all_exercises
bonus_exercises == {i \in DOMAIN get_all_exercises : ~get_all_exercises[i].is_base}

get_bonus_recommendation(trainings, clock, offset, underworked) ==
    LET count(i) == underworked_count(get_all_exercises[i], underworked)
        never_done_underworked ==
            {i \in bonus_exercises :
                /\ ~ever_done(trainings, get_all_exercises[i].name)
                /\ count(i) > 0}
        never_done_any ==
            {i \in bonus_exercises : ~ever_done(trainings, get_all_exercises[i].name)}
        all_with_score ==
            {i \in bonus_exercises : rested(trainings, get_all_exercises[i].name, clock)}
        total_score(i) ==
            LET days == days_since_exercise(trainings, get_all_exercises[i].name, clock)
            IN  count(i) * 10 + (IF days < 30 THEN days ELSE 30)
    IN  IF never_done_underworked # {}
        THEN Recommendation(
                get_all_exercises[FirstOfSortedDesc(never_done_underworked, count)].id,
                "new, underworked", ConfidenceScale, TRUE)
        ELSE IF never_done_any # {}
        THEN Recommendation(
                get_all_exercises[FirstOfSortedDesc(never_done_any, count)].id,
                "new, variety", (9 * ConfidenceScale) \div 10, TRUE)
        ELSE IF all_with_score # {}
        THEN LET best == FirstOfSortedDesc(all_with_score, total_score)
             IN  Recommendation(get_all_exercises[best].id,
                    IF count(best) > 0 THEN "underworked, long ago" ELSE "long ago",
                    (total_score(best) * ConfidenceScale) \div 50, TRUE)
        ELSE NoRecommendation

get_recommendation(trainings, clock, offset, underworked) ==
    IF base_program_done_today(trainings, clock, offset)
    THEN get_bonus_recommendation(trainings, clock, offset, underworked)
    ELSE get_base_recommendation(trainings, clock, offset, underworked)

----------------------------------------------------------------------------
(* GoalCalculator, src/src/ml/progress_goal.rs *)

RECORD_CONSOLIDATION_DAYS == 7

\* moscow_tz(): UTC+3
moscow_tz == 3 * HOUR

\* Option::unwrap_or
unwrap_or(option, default) == IF option.some THEN option.v ELSE default

\* trainings.iter().filter(|t| t.exercise == exercise_name)
of_exercise(trainings, exercise_name) ==
    SelectSeq(trainings, LAMBDA t : t.exercise = exercise_name)

\* .filter_map(|t| t.duration_secs).sum()
RECURSIVE sum_durations(_)
sum_durations(trainings) ==
    IF trainings = <<>> THEN 0
    ELSE unwrap_or(Head(trainings).duration_secs, 0) + sum_durations(Tail(trainings))

\* the greatest value and the date of the last training of that value
find_personal_best_with_latest_date(trainings, exercise_name, is_timed) ==
    LET filtered == of_exercise(trainings, exercise_name)
        values == IF is_timed
                  THEN {filtered[i].duration_secs.v :
                            i \in {j \in DOMAIN filtered : filtered[j].duration_secs.some}}
                  ELSE {filtered[i].reps : i \in DOMAIN filtered}
    IN  IF filtered = <<>> \/ values = {} THEN None
        ELSE LET best_value == Max(values)
                 dates == {filtered[i].date :
                            i \in {j \in DOMAIN filtered :
                                    IF is_timed
                                    THEN filtered[j].duration_secs = Some(best_value)
                                    ELSE filtered[j].reps = best_value}}
             IN  Some([value |-> best_value, date |-> Max(dates)])

\* Option<(i32, DateTime<Utc>)>: the greatest value and the earliest date of
\* a training of that value
find_personal_best_with_date(trainings, exercise_name, is_timed) ==
    LET filtered == of_exercise(trainings, exercise_name)
        values == IF is_timed
                  THEN {filtered[i].duration_secs.v :
                            i \in {j \in DOMAIN filtered : filtered[j].duration_secs.some}}
                  ELSE {filtered[i].reps : i \in DOMAIN filtered}
    IN  IF filtered = <<>> \/ values = {} THEN None
        ELSE LET best_value == Max(values)
                 dates == {filtered[i].date :
                            i \in {j \in DOMAIN filtered :
                                    IF is_timed
                                    THEN filtered[j].duration_secs = Some(best_value)
                                    ELSE filtered[j].reps = best_value}}
             IN  Some([value |-> best_value, date |-> Min(dates)])

\* has_confirmation_in_window with t.date > cutoff
has_confirmation_after_cutoff(trainings, exercise_name, personal_best, is_timed, window_days, clock) ==
    \E i \in DOMAIN trainings :
        /\ trainings[i].exercise = exercise_name
        /\ trainings[i].date > clock - window_days * DAY
        /\ IF is_timed
           THEN unwrap_or(trainings[i].duration_secs, 0) >= personal_best
           ELSE trainings[i].reps >= personal_best

\* has_confirmation_in_window without the window
has_confirmation_ever(trainings, exercise_name, personal_best, is_timed, window_days, clock) ==
    \E i \in DOMAIN trainings :
        /\ trainings[i].exercise = exercise_name
        /\ IF is_timed
           THEN unwrap_or(trainings[i].duration_secs, 0) >= personal_best
           ELSE trainings[i].reps >= personal_best

\* Both readings of Utc::now() in one call of calculate (progress_goal.rs:313
\* and :370) are the same instant, clock.
has_confirmation_in_window(trainings, exercise_name, personal_best, is_timed, window_days, clock) ==
    LET cutoff == clock - window_days * DAY
    IN  \E i \in DOMAIN trainings :
            /\ trainings[i].exercise = exercise_name
            /\ trainings[i].date >= cutoff
            /\ IF is_timed
               THEN unwrap_or(trainings[i].duration_secs, 0) >= personal_best
               ELSE trainings[i].reps >= personal_best

\* is_consolidating without the first seven days
consolidating_unless_confirmed(personal_best, days_since_record, record_confirmed) ==
    personal_best.some /\ ~record_confirmed

\* is_consolidating of calculate, progress_goal.rs:387-393
consolidating(personal_best, days_since_record, record_confirmed) ==
    IF ~personal_best.some THEN FALSE
    ELSE IF days_since_record < RECORD_CONSOLIDATION_DAYS THEN TRUE
    ELSE ~record_confirmed

\* f32 values of the goal calculator are kept multiplied by FloatScale and
\* cut to an integer.
FloatScale == 10000

\* const FATIGUE_K: f32 = 50.0, and exp(-1.0 / FATIGUE_K) times FloatScale
FATIGUE_K == 50
ExpStep == 9802

\* f32::round of num / den, den > 0: to the nearest, halves away from zero
Round(num, den) ==
    IF num >= 0 THEN (2 * num + den) \div (2 * den)
    ELSE 0 - ((den - 2 * num) \div (2 * den))

Abs(x) == IF x >= 0 THEN x ELSE 0 - x

\* (-load as f32 / FATIGUE_K).exp(), times FloatScale
RECURSIVE exp_neg(_)
exp_neg(load) ==
    IF load = 0 THEN FloatScale
    ELSE IF load > 0 THEN (exp_neg(load - 1) * ExpStep) \div FloatScale
    ELSE (FloatScale * FloatScale) \div exp_neg(0 - load)

\* the muscle groups of the catalog entry of a name, none for an unknown name
muscles_of(exercise_name) ==
    LET i == find_exercise_by_name(exercise_name)
    IN  IF i = 0 THEN {} ELSE Range(get_all_exercises[i].muscle_groups)

\* A SessionContext of some trainings: prior_load has an entry for every
\* muscle group one of them targets.
SessionContext(trainings) ==
    [prior_load |->
        [m \in UNION {muscles_of(trainings[i].exercise) : i \in DOMAIN trainings} |->
            sum_reps(targeting(trainings, m))],
     session_duration_secs |-> sum_durations(trainings),
     exercises_done |-> Len(trainings)]

\* prior_load.get(muscle).copied().unwrap_or(0)
load_of(context, muscle) ==
    IF muscle \in DOMAIN context.prior_load THEN context.prior_load[muscle] ELSE 0

\* build_current_context: the context of the trainings dated today in Moscow
build_current_context(trainings, clock) ==
    SessionContext(SelectSeq(trainings, LAMBDA t :
        date_naive(t.date, moscow_tz) = date_naive(clock, moscow_tz)))

RECURSIVE total_fatigue(_, _, _)
total_fatigue(context, muscles, k) ==
    IF k = 0 THEN 0
    ELSE total_fatigue(context, muscles, k - 1)
            + (FloatScale - exp_neg(load_of(context, muscles[k])))

\* fatigue_factor: the mean over the target muscles of 1 - e^(-load/k)
fatigue_factor(context, muscles) ==
    IF muscles = <<>> THEN 0
    ELSE total_fatigue(context, muscles, Len(muscles)) \div Len(muscles)

RECURSIVE total_diff(_, _, _)
total_diff(historical, current, k) ==
    IF k = 0 THEN 0
    ELSE LET muscle == MuscleGroup_all[k]
             hist_load == load_of(historical, muscle)
             curr_load == load_of(current, muscle)
             max_load == Max({hist_load, curr_load, 1})
         IN  total_diff(historical, current, k - 1)
                + (IF muscle \in DOMAIN historical.prior_load \cup DOMAIN current.prior_load
                   THEN (Abs(hist_load - curr_load) * FloatScale) \div max_load
                   ELSE 0)

\* compute_similarity as the share of the muscles both contexts have
compute_similarity_by_keys(historical, current) ==
    LET all_muscles == DOMAIN historical.prior_load \cup DOMAIN current.prior_load
        common == DOMAIN historical.prior_load \cap DOMAIN current.prior_load
    IN  IF all_muscles = {} THEN FloatScale
        ELSE (Cardinality(common) * FloatScale) \div Cardinality(all_muscles)

\* compute_similarity: 1 - min(mean relative difference of the loads, 1)
compute_similarity(historical, current) ==
    LET all_muscles == DOMAIN historical.prior_load \cup DOMAIN current.prior_load
    IN  IF all_muscles = {} THEN FloatScale
        ELSE LET avg_diff == total_diff(historical, current, Len(MuscleGroup_all))
                                \div Cardinality(all_muscles)
             IN  FloatScale - Min({avg_diff, FloatScale})

\* const MIN_SIMILARITY: f32 = 0.5
MIN_SIMILARITY == FloatScale \div 2

\* find_similar_sessions that does not skip today
find_similar_sessions_any_day(trainings, exercise_name, current_context, is_timed, clock) ==
    LET day(i) == date_naive(trainings[i].date, moscow_tz)
        before(i) ==
            {j \in DOMAIN trainings :
                /\ day(j) = day(i)
                /\ \/ trainings[j].date < trainings[i].date
                   \/ trainings[j].date = trainings[i].date /\ j < i}
        indices == [i \in DOMAIN trainings |-> i]
        context_before(i) ==
            SessionContext([k \in 1..Cardinality(before(i)) |->
                trainings[SelectSeq(indices, LAMBDA j : j \in before(i))[k]]])
        historical(i) ==
            [date |-> trainings[i].date,
             achieved_value |-> IF is_timed THEN unwrap_or(trainings[i].duration_secs, 0)
                                ELSE trainings[i].reps,
             similarity |-> compute_similarity(context_before(i), current_context)]
        matching == SelectSeq(indices, LAMBDA i :
                        /\ trainings[i].exercise = exercise_name
                        /\ historical(i).similarity >= MIN_SIMILARITY)
    IN  [k \in DOMAIN matching |-> historical(matching[k])]

\* find_similar_sessions: of every training of the exercise dated before
\* today, the achieved value and the similarity of the context before it,
\* which is made of the trainings of its day that precede it when the day is
\* sorted by timestamp (a stable sort); those of similarity >= MIN_SIMILARITY
find_similar_sessions(trainings, exercise_name, current_context, is_timed, clock) ==
    LET today == date_naive(clock, moscow_tz)
        day(i) == date_naive(trainings[i].date, moscow_tz)
        before(i) ==
            {j \in DOMAIN trainings :
                /\ day(j) = day(i)
                /\ \/ trainings[j].date < trainings[i].date
                   \/ trainings[j].date = trainings[i].date /\ j < i}
        indices == [i \in DOMAIN trainings |-> i]
        context_before(i) ==
            SessionContext([k \in 1..Cardinality(before(i)) |->
                trainings[SelectSeq(indices, LAMBDA j : j \in before(i))[k]]])
        historical(i) ==
            [date |-> trainings[i].date,
             achieved_value |-> IF is_timed THEN unwrap_or(trainings[i].duration_secs, 0)
                                ELSE trainings[i].reps,
             similarity |-> compute_similarity(context_before(i), current_context)]
        matching == SelectSeq(indices, LAMBDA i :
                        /\ day(i) # today
                        /\ trainings[i].exercise = exercise_name
                        /\ historical(i).similarity >= MIN_SIMILARITY)
    IN  [k \in DOMAIN matching |-> historical(matching[k])]

RECURSIVE weighted_sum(_)
weighted_sum(similar) ==
    IF similar = <<>> THEN 0
    ELSE Head(similar).achieved_value * Head(similar).similarity
            + weighted_sum(Tail(similar))

RECURSIVE weight_total(_)
weight_total(similar) ==
    IF similar = <<>> THEN 0
    ELSE Head(similar).similarity + weight_total(Tail(similar))

\* the base of the target when nothing was ever achieved, for every exercise
default_reps(is_timed) == 10

\* if is_timed { 60 } else { 10 }, progress_goal.rs:415
default_value(is_timed) == IF is_timed THEN 60 ELSE 10

\* target_value that takes the personal best for its base whether or not a
\* session is similar
target_value_of_best(similar, personal_best, is_timed, fatigue) ==
    LET base == unwrap_or(personal_best, default_value(is_timed))
        raw_target == base + 1
    IN  Round(raw_target * (10 * FloatScale - 3 * fatigue), 10 * FloatScale)

\* target_value of calculate, progress_goal.rs:413-427, before .max(1)
target_value(similar, personal_best, is_timed, fatigue) ==
    IF similar = <<>>
    THEN LET base == unwrap_or(personal_best, default_value(is_timed))
             raw_target == base + 1
         IN  Round(raw_target * (10 * FloatScale - 3 * fatigue), 10 * FloatScale)
    ELSE Round(weighted_sum(similar) + weight_total(similar), weight_total(similar))

\* GoalConfidence of the number of attempts, progress_goal.rs:435-440
confidence_of(total_attempts) ==
    IF total_attempts <= 2 THEN "Low"
    ELSE IF total_attempts <= 5 THEN "Medium"
    ELSE "High"

\* the challenge whatever the consolidation
beat_record_target_always(personal_best, is_consolidating) ==
    IF personal_best.some THEN Some(personal_best.v + 1) ELSE None

\* beat_record_target of calculate, progress_goal.rs:404-408
beat_record_target(personal_best, is_consolidating) ==
    IF is_consolidating THEN None
    ELSE IF personal_best.some THEN Some(personal_best.v + 1)
    ELSE None

\* consolidation_days_left counted down from the record without wrapping
consolidation_days_left_unwrapped(is_consolidating, days_since_record) ==
    IF is_consolidating
    THEN Some(RECORD_CONSOLIDATION_DAYS - days_since_record)
    ELSE None

\* consolidation_days_left of calculate, progress_goal.rs:396-401
consolidation_days_left(is_consolidating, days_since_record) ==
    IF is_consolidating
    THEN Some(RECORD_CONSOLIDATION_DAYS - (days_since_record % RECORD_CONSOLIDATION_DAYS))
    ELSE None

\* GoalCalculator::calculate: an Option<ProgressGoal>.  No training is dated
\* after the clock, so num_days and % are taken of nothing negative.  Every
\* reading of Utc::now() in one call is the same instant, clock.
calculate(trainings, exercise_name, clock) ==
    LET i == find_exercise_by_name(exercise_name)
    IN  IF i = 0 THEN None
        ELSE
        LET is_timed == get_all_exercises[i].is_timed
            current_context == build_current_context(trainings, clock)
            fatigue == fatigue_factor(current_context, get_all_exercises[i].muscle_groups)
            today == date_naive(clock, moscow_tz)
            today_exercises ==
                SelectSeq(trainings, LAMBDA t :
                    date_naive(t.date, moscow_tz) = today /\ t.exercise = exercise_name)
            best == find_personal_best_with_date(trainings, exercise_name, is_timed)
            personal_best == IF best.some THEN Some(best.v.value) ELSE None
            record_date == IF best.some THEN Some(best.v.date) ELSE None
            days_since_record ==
                IF record_date.some THEN num_days(clock - record_date.v) ELSE 0
            record_confirmed ==
                IF personal_best.some
                THEN has_confirmation_in_window(trainings, exercise_name,
                        personal_best.v, is_timed, RECORD_CONSOLIDATION_DAYS, clock)
                ELSE FALSE
            is_consolidating ==
                consolidating(personal_best, days_since_record, record_confirmed)
            similar == find_similar_sessions(trainings, exercise_name,
                                             current_context, is_timed, clock)
        IN  Some([target_value |->
                      Max({target_value(similar, personal_best, is_timed, fatigue), 1}),
                  personal_best |-> personal_best,
                  beat_record_target |-> beat_record_target(personal_best, is_consolidating),
                  is_timed |-> is_timed,
                  confidence |->
                      confidence_of(Len(of_exercise(trainings, exercise_name))),
                  fatigue_factor |-> fatigue,
                  similar_sessions |-> Len(similar),
                  today_sets |-> Len(today_exercises),
                  today_value |-> IF is_timed THEN sum_durations(today_exercises)
                                  ELSE sum_reps(today_exercises),
                  record_date |-> record_date,
                  is_consolidating |-> is_consolidating,
                  consolidation_days_left |->
                      consolidation_days_left(is_consolidating, days_since_record),
                  record_confirmed |-> record_confirmed])

----------------------------------------------------------------------------
(* The bot around the recommender, src/src/bot/mod.rs *)

\* Inputs of the model
TickInputs == {1, HOUR}
RepsInputs == {10}
SecondsInputs == {60}
ChosenInputs == {"pushups_fist", "taiji_shadow_weapon", "star_jump"}

\* Local is the timezone of the machine the bot runs on; the bot renders its
\* own dates in Moscow time (moscow_tz, bot/mod.rs), which is taken for it.
LocalOffset == 3 * HOUR

\* The clock starts at a local midnight, HistoryDays days after the oldest
\* row a history may hold.
HistoryDays == 41
StartClock == HistoryDays * DAY - LocalOffset

\* A history: every non-base exercise was performed once, the k-th of them
\* 2k days and one tick before the start.
Veteran ==
    [k \in 1..Len(EXTRA_EXERCISES) |->
        Training(EXTRA_EXERCISES[k].name, StartClock - 2 * k * DAY - 1,
                 IF EXTRA_EXERCISES[k].is_timed THEN 1 ELSE 10, Some(60))]

\* The first k entries of the base program in the order of the program,
\* the warm-up first, logged on top of rows one tick before the start, late
\* in the evening of the day before.
ProgramOrder ==
    <<"taiji_shadow", "pushups_fist", "pushups_handles", "jackknife",
      "plank_elbows", "squats_strikes", "swimmer", "taiji_shadow_weapon">>

RECURSIVE LateEvening(_, _)
LateEvening(rows, k) ==
    IF k = 0 THEN rows
    ELSE LET i == CHOOSE i \in DOMAIN BASE_EXERCISES :
                        BASE_EXERCISES[i].id = ProgramOrder[k]
         IN  add_training(LateEvening(rows, k - 1),
                          Training(BASE_EXERCISES[i].name, StartClock - 1,
                                   IF BASE_EXERCISES[i].is_timed THEN 1 ELSE 10,
                                   Some(60)))

\* A new user, and a user who has performed everything but the cool-down
Histories == {<<>>, LateEvening(Veteran, 7)}

\* the rows saved since the start
Saved(rows) ==
    Cardinality({i \in DOMAIN rows : rows[i].date >= StartClock})

NotAsked == [called |-> FALSE, underworked |-> {}]

\* A session follows the recommender from a fresh day: count recommendations
\* were returned and each was logged, at the clock of its request, before the
\* next request; logged holds the exercises so logged.
NoSession == [active |-> FALSE, count |-> 0, logged |-> {}]

\* appended: the row appended last and what calculate returned for its
\* exercise on the log before it
\* at: the clock of the call; earlier: the result and the clock of the call
\* before it for the same exercise
NoGoal == [called |-> FALSE, exercise_name |-> "", result |-> None,
           appended |-> None, at |-> 0, earlier |-> None]

NoTracker ==
    [called |-> FALSE, order |-> <<>>, limit |-> 0, loads |-> <<>>,
     underworked |-> <<>>, balance_score |-> 0]

\* no core computation was applied since the log last changed
NoCore ==
    [called |-> FALSE, computation |-> "", given |-> <<>>, after |-> <<>>,
     predictor |-> None]

\* compute_similarity was applied to nothing
NoCompared ==
    [called |-> FALSE, historical |-> <<>>, current |-> <<>>, similarity |-> 0,
     before |-> None]

\* enum State of the bot, bot/mod.rs:63-92.  Every state is a record of the
\* same fields; a field a variant lacks is "" or 0.  The one user of the
\* model is the user_id of every state.
StateOf(tag, exercise_id, exercise_name, pulse_before, start_time, reps, duration_secs) ==
    [tag |-> tag, exercise_id |-> exercise_id, exercise_name |-> exercise_name,
     pulse_before |-> pulse_before, start_time |-> start_time,
     reps |-> reps, duration_secs |-> duration_secs]

State_Start == StateOf("Start", "", "", 0, 0, 0, 0)

WaitingForOwnerMessage == StateOf("WaitingForOwnerMessage", "", "", 0, 0, 0, 0)

WaitingForPulseBefore(exercise_id, exercise_name) ==
    StateOf("WaitingForPulseBefore", exercise_id, exercise_name, 0, 0, 0, 0)

WaitingForReps(exercise_id, exercise_name, pulse_before, start_time) ==
    StateOf("WaitingForReps", exercise_id, exercise_name, pulse_before, start_time, 0, 0)

WaitingForPulseAfter(exercise_id, exercise_name, pulse_before, reps, duration_secs) ==
    StateOf("WaitingForPulseAfter", exercise_id, exercise_name, pulse_before, 0,
            reps, duration_secs)

\* no update was handled yet
NoStep ==
    [handler |-> "", text |-> [some |-> FALSE, v |-> <<>>],
     delivered |-> TRUE, stored |-> TRUE,
     before |-> State_Start, wrote |-> FALSE]

\* The dialogue of the one chat: its State (State::default() is Start), what
\* check_user_access answers for the user, the last update handled, the
\* records written since the dialogue last left Start and those of them whose
\* confirmation was not delivered.
DialogueOf(access) ==
    [state |-> State_Start, access |-> access, step |-> NoStep, written |-> 0,
     undelivered |-> 0]

\* no dialogue was begun
NoDialogue == DialogueOf("Allowed")

Init ==
    /\ now = StartClock
    /\ db \in Histories
    /\ rec = NoRecommendation
    /\ asked = NotAsked
    /\ session = NoSession
    /\ goal = NoGoal
    /\ tracker = NoTracker
    /\ core = NoCore
    /\ dialogue = NoDialogue
    /\ compared = NoCompared

\* no row is dated today and no base exercise was performed within the hour
FreshDay(trainings, clock, offset) ==
    /\ \A i \in DOMAIN trainings :
            date_naive(trainings[i].date, offset) # date_naive(clock, offset)
    /\ \A i \in DOMAIN trainings :
            (\E b \in DOMAIN BASE_EXERCISES :
                BASE_EXERCISES[b].name = trainings[i].exercise)
            => num_minutes(clock - trainings[i].date) >= 60

\* Command::Train, bot/mod.rs:331-338: the rows of the user are read and a
\* Recommender is built from them, which builds a MuscleTracker.  The reply
\* is kept until the next message; asking again over the same rows at the
\* same clock is the same call once more and is not repeated.
Recommend ==
    /\ ~asked.called
    /\ \E underworked \in get_underworked_groups(
                from_trainings(get_trainings_for_user(db), now, LocalOffset), 5) :
          LET trainings == get_trainings_for_user(db)
          IN  /\ rec' = get_recommendation(trainings, now, LocalOffset, underworked)
              /\ asked' = [called |-> TRUE, underworked |-> underworked]
              /\ session' = IF FreshDay(trainings, now, LocalOffset)
                            THEN [active |-> TRUE, count |-> 0, logged |-> {}]
                            ELSE session
    /\ UNCHANGED <<db, now, goal, tracker, core, dialogue, compared>>

\* handle_message in State::WaitingForPulseAfter, bot/mod.rs:783-812: the
\* training is saved with date Utc::now(); a timed exercise is saved with
\* reps = 1 (bot/mod.rs:741) and every training with Some duration.
SaveTraining(exercise_name, reps, duration_secs) ==
    /\ \/ rec.some /\ exercise_name = rec.exercise
       \/ exercise_name \in ChosenInputs /\ Saved(db) < MaxChosen
    /\ Saved(db) < MaxRows
    /\ LET i == find_exercise_by_name(exercise_name)
           is_timed == i # 0 /\ get_all_exercises[i].is_timed
       IN  db' = add_training(db, Training(exercise_name, now,
                                           IF is_timed THEN 1 ELSE reps,
                                           Some(duration_secs)))
    /\ session' = IF session.active /\ rec.some /\ exercise_name = rec.exercise
                  THEN [session EXCEPT !.count = @ + 1,
                                       !.logged = @ \cup {exercise_name}]
                  ELSE NoSession
    /\ rec' = NoRecommendation
    /\ asked' = NotAsked
    /\ UNCHANGED <<now, goal, tracker, core, dialogue, compared>>

\* Time passes.  A session ends when a recommendation is left unlogged or the
\* local date changes.
Tick(d) ==
    /\ now + d <= StartClock + MaxTicks
    /\ now' = now + d
    /\ session' = IF /\ ~asked.called
                     /\ date_naive(now + d, LocalOffset) = date_naive(now, LocalOffset)
                  THEN session ELSE NoSession
    /\ rec' = NoRecommendation
    /\ asked' = NotAsked
    /\ UNCHANGED <<db, goal, tracker, core, dialogue, compared>>

Next ==
    \/ Recommend
    \/ \E e \in AllNames, r \in RepsInputs, d \in SecondsInputs : SaveTraining(e, r, d)
    \/ \E d \in TickInputs : Tick(d)

Spec == Init /\ [][Next]_vars

----------------------------------------------------------------------------
(* GoalCalculator::calculate is a function of the trainings it is given,   *)
(* the name and the clock: it is applied to every log of at most           *)
(* MaxGoalRows rows drawn from GoalRows.                                   *)

MaxGoalRows == 3

GoalExercises == {"pushups_fist", "plank_elbows"}
GoalNames == GoalExercises \cup {"no such exercise"}
GoalValues == {10, 20}

\* how long before the clock a row is dated, in ticks
GoalAges ==
    {0, 3 * DAY,
     RECORD_CONSOLIDATION_DAYS * DAY - 1, RECORD_CONSOLIDATION_DAYS * DAY,
     RECORD_CONSOLIDATION_DAYS * DAY + 1, 10 * DAY}

\* The bot saves the reps it parses as an i32 (bot/mod.rs:758), of either
\* sign: a set of a negative number of reps, three days ago
NegativeSet == Training("pushups_fist", StartClock - 3 * DAY, 0 - 5, Some(60))

\* A set of a rep-based exercise has its reps; a set of a timed one has
\* reps = 1 and its duration, which a row may lack.
GoalRows ==
    {Training("pushups_fist", StartClock - age, v, Some(60)) :
        age \in GoalAges, v \in GoalValues}
    \cup {Training("plank_elbows", StartClock - age, 1, d) :
        age \in GoalAges, d \in {Some(v) : v \in GoalValues} \cup {None}}
    \cup {NegativeSet}

RECURSIVE GoalLogs(_)
GoalLogs(n) ==
    IF n = 0 THEN {<<>>}
    ELSE LET shorter == GoalLogs(n - 1)
         IN  shorter \cup {add_training(rows, t) : rows \in shorter, t \in GoalRows}

InitGoal ==
    /\ now = StartClock
    /\ db \in GoalLogs(MaxGoalRows)
    /\ rec = NoRecommendation
    /\ asked = NotAsked
    /\ session = NoSession
    /\ goal = NoGoal
    /\ tracker = NoTracker
    /\ core = NoCore
    /\ dialogue = NoDialogue
    /\ compared = NoCompared

Calculate(exercise_name) ==
    /\ goal' = [goal EXCEPT !.called = TRUE, !.exercise_name = exercise_name,
                            !.result = calculate(db, exercise_name, now)]
    /\ UNCHANGED <<db, now, rec, asked, session, tracker, core, dialogue, compared>>

\* what a set appended to the log may achieve
AppendValues == {10, 20, 30}

\* A set is appended to the log as the bot saves it: dated now, a timed one
\* with reps = 1 and its duration.  One set is appended to a log.
AppendSet(exercise_name, value) ==
    /\ ~goal.appended.some
    /\ LET i == find_exercise_by_name(exercise_name)
           row == IF get_all_exercises[i].is_timed
                  THEN Training(exercise_name, now, 1, Some(value))
                  ELSE Training(exercise_name, now, value, Some(60))
       IN  /\ db' = add_training(db, row)
           /\ goal' = [NoGoal EXCEPT !.appended =
                            Some([row |-> row,
                                  before |-> calculate(db, exercise_name, now)])]
    /\ UNCHANGED <<now, rec, asked, session, tracker, core, dialogue, compared>>

NextGoal ==
    \/ \E e \in GoalNames : Calculate(e)
    \/ \E e \in GoalExercises, v \in AppendValues : AppendSet(e, v)

SpecGoal == InitGoal /\ [][NextGoal]_vars

----------------------------------------------------------------------------
(* MuscleTracker::from_trainings and its queries are functions of the      *)
(* trainings and the clock: they are applied to every log of at most       *)
(* MaxTrackerRows rows drawn from TrackerRows.                             *)

MaxTrackerRows == 3

\* The bot saves the reps it parses as an i32 (bot/mod.rs:758), of either
\* sign; a timed exercise is saved with reps = 1.
TrackerReps == {0 - 5, 10, 30}

\* how long before the clock a row is dated: today, seven days ago at
\* midnight and the tick before that
TrackerAges == {0, 7 * DAY, 7 * DAY + 1}

TrackerRows ==
    {Training(e, StartClock - age, r, Some(60)) :
        e \in {"pushups_fist", "squats_strikes", "jackknife", "calf_raises"},
        age \in TrackerAges, r \in TrackerReps}
    \cup {Training(e, StartClock - age, 1, Some(60)) :
        e \in {"taiji_shadow"}, age \in TrackerAges}
    \cup {Training(e, StartClock - age, 10, Some(60)) :
        e \in {"no such exercise"}, age \in TrackerAges}

RECURSIVE TrackerLogs(_)
TrackerLogs(n) ==
    IF n = 0 THEN {<<>>}
    ELSE LET shorter == TrackerLogs(n - 1)
         IN  shorter \cup {add_training(rows, t) : rows \in shorter, t \in TrackerRows}

\* Orders in which the HashMap of the loads may yield its values
HashMapOrders ==
    {MuscleGroup_all,
     [k \in DOMAIN MuscleGroup_all |->
        MuscleGroup_all[Len(MuscleGroup_all) + 1 - k]],
     [k \in DOMAIN MuscleGroup_all |->
        MuscleGroup_all[((k + 4) % Len(MuscleGroup_all)) + 1]]}

LimitInputs == {0, 5, 12}

InitTracker ==
    /\ now = StartClock
    /\ db \in TrackerLogs(MaxTrackerRows)
    /\ rec = NoRecommendation
    /\ asked = NotAsked
    /\ session = NoSession
    /\ goal = NoGoal
    /\ tracker = NoTracker
    /\ core = NoCore
    /\ dialogue = NoDialogue
    /\ compared = NoCompared

\* A tracker is built from the rows of the user, as Recommender::new does,
\* and queried.  Building it again from the same rows at the same clock is
\* the same call once more and is not repeated.
Track(order, limit) ==
    /\ ~tracker.called
    /\ LET loads == from_trainings(get_trainings_for_user(db), now, LocalOffset)
       IN  tracker' = [called |-> TRUE, order |-> order, limit |-> limit,
                       loads |-> loads,
                       underworked |->
                            take_underworked(get_loads_sorted(loads, order), limit),
                       balance_score |-> get_balance_score(loads)]
    /\ UNCHANGED <<db, now, rec, asked, session, goal, core, dialogue, compared>>

NextTracker == \E order \in HashMapOrders, limit \in LimitInputs : Track(order, limit)

SpecTracker == InitTracker /\ [][NextTracker]_vars

----------------------------------------------------------------------------
(* The core computations and the log.  Each of them is handed the          *)
(* trainings read from the store and is applied to every log of at most    *)
(* MaxCoreRows rows drawn from CoreRows; between them sets are logged.     *)

MaxCoreRows == 3

\* const MIN_DATA_POINTS: usize = 3, predictor.rs:11
MIN_DATA_POINTS == 3

\* The clock is at a local midnight: a row of age 0 is dated today, a row
\* of age 1 the day before and within the hour.
CoreRows ==
    {Training("pushups_fist", StartClock - age, r, Some(60)) :
        age \in {0, 1, 8 * DAY}, r \in {10, 20}}
    \cup {Training("taiji_shadow", StartClock - age, 1, Some(60)) : age \in {0, 1}}
    \cup {Training("squats_strikes", StartClock, 10, Some(60)),
          Training("no such exercise", StartClock, 10, Some(60))}

RECURSIVE CoreLogs(_)
CoreLogs(n) ==
    IF n = 0 THEN {<<>>}
    ELSE LET shorter == CoreLogs(n - 1)
         IN  shorter \cup {add_training(rows, t) : rows \in shorter, t \in CoreRows}

RECURSIVE InsertAsc(_, _)
InsertAsc(sorted, t) ==
    IF sorted = <<>> THEN <<t>>
    ELSE IF t.date < Head(sorted).date THEN <<t>> \o sorted
    ELSE <<Head(sorted)>> \o InsertAsc(Tail(sorted), t)

\* sort_by_key(|t| t.date) applied to the trainings themselves
RECURSIVE sorted_in_place(_)
sorted_in_place(trainings) ==
    IF trainings = <<>> THEN <<>>
    ELSE InsertAsc(sorted_in_place(SubSeq(trainings, 1, Len(trainings) - 1)),
                   trainings[Len(trainings)])

\* What the caller holds of the trainings after a callee that borrowed them
\* as &[Training] (from_trainings, calculate, train) or holds them behind
\* &self (get_recommendation) returns.  Training has no field a shared
\* borrow can write; whatever the callees sort or collect is a vector of
\* their own: loads (muscle_tracker.rs:80-81), candidates
\* (recommender.rs:98, :147), sorted = day_trainings.clone()
\* (progress_goal.rs:560-561), exercise_trainings (predictor.rs:43-46).
behind_borrow(trainings) == trainings

InitCore ==
    /\ now = StartClock
    /\ db \in CoreLogs(MaxCoreRows)
    /\ rec = NoRecommendation
    /\ asked = NotAsked
    /\ session = NoSession
    /\ goal = NoGoal
    /\ tracker = NoTracker
    /\ core = NoCore
    /\ dialogue = NoDialogue
    /\ compared = NoCompared

Called(computation, trainings) ==
    [called |-> TRUE, computation |-> computation, given |-> trainings,
     after |-> behind_borrow(trainings), predictor |-> None]

\* MuscleTracker::from_trainings on the trainings of the user and the
\* queries of the tracker
CallTracker(order, limit) ==
    /\ ~core.called
    /\ LET trainings == get_trainings_for_user(db)
           loads == from_trainings(trainings, now, LocalOffset)
       IN  /\ tracker' = [called |-> TRUE, order |-> order, limit |-> limit,
                          loads |-> loads,
                          underworked |->
                            take_underworked(get_loads_sorted(loads, order), limit),
                          balance_score |-> get_balance_score(loads)]
           /\ core' = Called("from_trainings", trainings)
    /\ UNCHANGED <<db, now, rec, asked, session, goal, dialogue, compared>>

\* Recommender::new(trainings).get_recommendation(); the recommender asks
\* its tracker for five underworked groups, which come in the order of the
\* map
CallRecommender(order) ==
    /\ ~core.called
    /\ LET trainings == get_trainings_for_user(db)
           loads == from_trainings(trainings, now, LocalOffset)
           underworked == Range(take_underworked(get_loads_sorted(loads, order), 5))
       IN  /\ rec' = get_recommendation(trainings, now, LocalOffset, underworked)
           /\ asked' = [called |-> TRUE, underworked |-> underworked]
           /\ core' = Called("get_recommendation", trainings)
    /\ UNCHANGED <<db, now, session, goal, tracker, dialogue, compared>>

\* GoalCalculator::calculate(&trainings, exercise_name)
CallCalculate(exercise_name) ==
    /\ ~core.called
    /\ LET trainings == get_trainings_for_user(db)
       IN  /\ goal' = [goal EXCEPT !.called = TRUE, !.exercise_name = exercise_name,
                                   !.result = calculate(trainings, exercise_name, now)]
           /\ core' = Called("calculate", trainings)
    /\ UNCHANGED <<db, now, rec, asked, session, tracker, dialogue, compared>>

\* ProgressPredictor::train(&trainings, exercise): None with fewer than
\* MIN_DATA_POINTS trainings of the exercise; with more, the predictor holds
\* what LinearRegression::fit of the linfa crate returns, or train returns
\* None when fit fails, which is left open here.
Train(exercise, fitted) ==
    /\ ~core.called
    /\ LET trainings == get_trainings_for_user(db)
           exercise_trainings == of_exercise(trainings, exercise)
       IN  core' = [Called("train", trainings) EXCEPT !.predictor =
                        IF Len(exercise_trainings) < MIN_DATA_POINTS \/ ~fitted
                        THEN None
                        ELSE Some([data_points |-> Len(exercise_trainings),
                                   first_date |->
                                        Min({exercise_trainings[i].date :
                                                i \in DOMAIN exercise_trainings})])]
    /\ UNCHANGED <<db, now, rec, asked, session, goal, tracker, dialogue, compared>>

\* ProgressPredictor::predict_reps(&self, days_ahead), predictor.rs:113-118:
\* it reads the clock and the fields of the predictor
Predict ==
    /\ core.called /\ core.computation = "train" /\ core.predictor.some
    /\ core' = [core EXCEPT !.computation = "predict_reps"]
    /\ UNCHANGED <<db, now, rec, asked, session, goal, tracker, dialogue, compared>>

\* A set is logged, dated now; what the computations returned for the log
\* before it is dropped.
LogSet(exercise_name, reps) ==
    /\ Len(db) < MaxCoreRows + 1
    /\ db' = add_training(db, Training(exercise_name, now, reps, Some(60)))
    /\ rec' = NoRecommendation
    /\ asked' = NotAsked
    /\ goal' = NoGoal
    /\ tracker' = NoTracker
    /\ core' = NoCore
    /\ UNCHANGED <<now, session, dialogue, compared>>

NextCore ==
    \/ \E order \in HashMapOrders, limit \in LimitInputs : CallTracker(order, limit)
    \/ \E order \in HashMapOrders : CallRecommender(order)
    \/ \E e \in GoalNames : CallCalculate(e)
    \/ \E e \in GoalNames, fitted \in BOOLEAN : Train(e, fitted)
    \/ Predict
    \/ \E r \in RepsInputs : LogSet("pushups_fist", r)

SpecCore == InitCore /\ [][NextCore]_vars

----------------------------------------------------------------------------
(* GoalCalculator::compute_similarity is a function of two SessionContexts: *)
(* it is applied to every pair of contexts with loads from SimilarityLoads  *)
(* in the muscles of SimilarityMuscles, and again after one load of a       *)
(* muscle both contexts have was changed.                                   *)

SimilarityMuscles == {"Chest", "Core"}

\* prior_load sums the reps of the trainings, an i32 of either sign
SimilarityLoads == {0 - 5, 0, 1, 3, 5, 8, 20}

\* a SessionContext of the given prior_load
ContextOf(prior_load) ==
    [prior_load |-> prior_load, session_duration_secs |-> 0, exercises_done |-> 0]

Contexts ==
    {ContextOf(prior_load) :
        prior_load \in UNION {[muscles -> SimilarityLoads] :
                                muscles \in SUBSET SimilarityMuscles}}

InitSimilarity ==
    /\ now = StartClock
    /\ db = <<>>
    /\ rec = NoRecommendation
    /\ asked = NotAsked
    /\ session = NoSession
    /\ goal = NoGoal
    /\ tracker = NoTracker
    /\ core = NoCore
    /\ dialogue = NoDialogue
    /\ \E historical, current \in Contexts :
            compared = [NoCompared EXCEPT !.historical = historical,
                                          !.current = current]

\* compute_similarity(&historical, &current)
Compare ==
    /\ ~compared.called
    /\ compared' = [compared EXCEPT
                        !.called = TRUE,
                        !.similarity = compute_similarity(compared.historical,
                                                          compared.current)]
    /\ UNCHANGED <<db, now, rec, asked, session, goal, tracker, core, dialogue>>

\* The load of one muscle that both contexts have is changed in one of
\* them, every other load is kept, and compute_similarity is applied again;
\* before holds the muscle, the side, the similarity and the contexts of the
\* first application.
CompareShifted(side, muscle, load) ==
    /\ compared.called /\ ~compared.before.some
    /\ muscle \in DOMAIN compared.historical.prior_load
    /\ muscle \in DOMAIN compared.current.prior_load
    /\ LET historical ==
                IF side = "historical"
                THEN ContextOf([compared.historical.prior_load EXCEPT ![muscle] = load])
                ELSE compared.historical
           current ==
                IF side = "current"
                THEN ContextOf([compared.current.prior_load EXCEPT ![muscle] = load])
                ELSE compared.current
       IN  compared' =
                [called |-> TRUE, historical |-> historical, current |-> current,
                 similarity |-> compute_similarity(historical, current),
                 before |-> Some([muscle |-> muscle, side |-> side,
                                  historical |-> compared.historical,
                                  current |-> compared.current,
                                  similarity |-> compared.similarity])]
    /\ UNCHANGED <<db, now, rec, asked, session, goal, tracker, core, dialogue>>

NextSimilarity ==
    \/ Compare
    \/ \E side \in {"historical", "current"}, muscle \in SimilarityMuscles,
          load \in SimilarityLoads : CompareShifted(side, muscle, load)

SpecSimilarity == InitSimilarity /\ [][NextSimilarity]_vars

----------------------------------------------------------------------------
(* The goal of an exercise over time: calculate is applied to a log, time  *)
(* passes, sets are logged and calculate is applied again.                 *)

MaxTimeRows == 2
MaxDaysPassed == 8

\* the values of the sets logged later
LaterValues == {5, 20}

\* how much time passes at once
PassInputs == {3 * DAY, 5 * DAY}

TimeRows ==
    {Training("pushups_fist", StartClock - age, v, Some(60)) :
        age \in {3 * DAY, 10 * DAY}, v \in GoalValues}
    \cup {Training("plank_elbows", StartClock - age, 1, d) :
        age \in {3 * DAY, 10 * DAY}, d \in {Some(20), None}}

RECURSIVE TimeLogs(_)
TimeLogs(n) ==
    IF n = 0 THEN {<<>>}
    ELSE LET shorter == TimeLogs(n - 1)
         IN  shorter \cup {add_training(rows, t) : rows \in shorter, t \in TimeRows}

InitTime ==
    /\ now = StartClock
    /\ db \in TimeLogs(MaxTimeRows)
    /\ rec = NoRecommendation
    /\ asked = NotAsked
    /\ session = NoSession
    /\ goal = NoGoal
    /\ tracker = NoTracker
    /\ core = NoCore
    /\ dialogue = NoDialogue
    /\ compared = NoCompared

\* GoalCalculator::calculate(&trainings, exercise_name) at the clock; the
\* result of the call before it for the same exercise is kept beside it
Query(exercise_name) ==
    /\ goal' = [called |-> TRUE, exercise_name |-> exercise_name,
                result |-> calculate(db, exercise_name, now),
                appended |-> None, at |-> now,
                earlier |->
                    IF goal.result.some /\ goal.exercise_name = exercise_name
                    THEN Some([result |-> goal.result.v, at |-> goal.at])
                    ELSE None]
    /\ UNCHANGED <<db, now, rec, asked, session, tracker, core, dialogue, compared>>

\* Time passes; the goal held is no longer that of the clock.
Pass(d) ==
    /\ now + d <= StartClock + MaxDaysPassed * DAY
    /\ now' = now + d
    /\ goal' = [goal EXCEPT !.called = FALSE]
    /\ UNCHANGED <<db, rec, asked, session, tracker, core, dialogue, compared>>

\* A set is logged as the bot saves it, dated now; the goal held is no
\* longer that of the log.
LogLater(exercise_name, value) ==
    /\ Len(db) < MaxTimeRows + 1
    /\ LET i == find_exercise_by_name(exercise_name)
           row == IF get_all_exercises[i].is_timed
                  THEN Training(exercise_name, now, 1, Some(value))
                  ELSE Training(exercise_name, now, value, Some(60))
       IN  db' = add_training(db, row)
    /\ goal' = [goal EXCEPT !.called = FALSE]
    /\ UNCHANGED <<now, rec, asked, session, tracker, core, dialogue, compared>>

NextTime ==
    \/ \E e \in GoalExercises : Query(e)
    \/ \E d \in PassInputs : Pass(d)
    \/ \E e \in GoalExercises, v \in LaterValues : LogLater(e, v)

SpecTime == InitTime /\ [][NextTime]_vars

----------------------------------------------------------------------------
(* The logging dialogue of the bot *)

MaxDialogueRows == 2
MaxDialogueTicks == 1

\* the seconds of one tick of the clock
SecondsPerTick == 3600 \div TicksPerHour

\* (a - b).num_seconds() of two instants
num_seconds(ticks) == ticks * SecondsPerTick

\* i32::MAX
i32_MAX == 2147483647

\* find_exercise: get_all_exercises().into_iter().find(|e| e.id == id), the
\* index of the first entry of that id, 0 for None
find_exercise(id) ==
    IF \E i \in DOMAIN get_all_exercises : get_all_exercises[i].id = id
    THEN CHOOSE i \in DOMAIN get_all_exercises :
            /\ get_all_exercises[i].id = id
            /\ \A j \in 1..(i - 1) : get_all_exercises[j].id # id
    ELSE 0

\* find_exercise(&exercise_id).map(|ex| ex.is_timed).unwrap_or(false)
is_timed_id(exercise_id) ==
    LET i == find_exercise(exercise_id)
    IN  IF i = 0 THEN FALSE ELSE get_all_exercises[i].is_timed

\* A text is the sequence of its characters.  str::trim: the text without
\* the white space at its two ends.
RECURSIVE trim_start(_)
trim_start(text) ==
    IF text # <<>> /\ Head(text) = " " THEN trim_start(Tail(text)) ELSE text

RECURSIVE trim_end(_)
trim_end(text) ==
    IF text # <<>> /\ text[Len(text)] = " "
    THEN trim_end(SubSeq(text, 1, Len(text) - 1))
    ELSE text

trim(text) == trim_end(trim_start(text))

DecimalDigits == <<"0", "1", "2", "3", "4", "5", "6", "7", "8", "9">>

\* char::to_digit(10)
to_digit(c) ==
    IF \E d \in DOMAIN DecimalDigits : DecimalDigits[d] = c
    THEN Some((CHOOSE d \in DOMAIN DecimalDigits : DecimalDigits[d] = c) - 1)
    ELSE None

\* the value of a run of digits after acc, None at a character that is no
\* digit and when the value does not fit an i32
RECURSIVE checked_digits(_, _)
checked_digits(digits, acc) ==
    IF digits = <<>> THEN Some(acc)
    ELSE LET d == to_digit(Head(digits))
         IN  IF ~d.some THEN None
             ELSE IF acc > (i32_MAX - d.v) \div 10 THEN None
             ELSE checked_digits(Tail(digits), acc * 10 + d.v)

\* str::parse::<i32>: an optional sign and at least one digit, nothing else;
\* Ok(n) is Some(n), every Err is None.  (i32::MIN itself is left
\* out: no text of the model spells it.)
parse_i32(text) ==
    IF text = <<>> THEN None
    ELSE LET signed == Head(text) \in {"+", "-"}
             digits == IF signed THEN Tail(text) ELSE text
             magnitude == IF digits = <<>> THEN None ELSE checked_digits(digits, 0)
         IN  IF ~magnitude.some THEN None
             ELSE IF Head(text) = "-" THEN Some(0 - magnitude.v)
             ELSE magnitude

\* the pulse test that lets a pulse of any small value through
pulse_above_range(pulse) == pulse > 250

\* pulse < 30 || pulse > 250, bot/mod.rs:690 and 786
pulse_out_of_range(pulse) == pulse < 30 \/ pulse > 250

\* a message without a text
NoText == [some |-> FALSE, v |-> <<>>]

\* what a handler leaves behind: the State of the dialogue and the row it
\* saved, if it saved one
Outcome(state, row) == [state |-> state, row |-> row]

\* handle_message.  delivered: bot.send_message returned Ok; stored:
\* db.add_training returned Ok.  An Err leaves the handler at once through ?.
handle_message(state, access, text, clock, delivered, stored) ==
    CASE state.tag = "WaitingForOwnerMessage" ->
            IF text.some /\ delivered
            THEN Outcome(State_Start, None)
            ELSE Outcome(state, None)
      [] state.tag = "WaitingForPulseBefore" ->
            IF ~text.some THEN Outcome(state, None)
            ELSE LET pulse == parse_i32(trim(text.v))
                 IN  IF ~pulse.some THEN Outcome(state, None)
                     ELSE IF pulse_out_of_range(pulse.v) THEN Outcome(state, None)
                     ELSE Outcome(WaitingForReps(state.exercise_id, state.exercise_name,
                                                 pulse.v, clock), None)
      [] state.tag = "WaitingForReps" ->
            IF ~text.some THEN Outcome(state, None)
            ELSE IF is_timed_id(state.exercise_id)
            THEN LET elapsed == num_seconds(clock - state.start_time)
                     duration_secs == Max({elapsed - 5, 1})
                 IN  Outcome(WaitingForPulseAfter(state.exercise_id, state.exercise_name,
                                                  state.pulse_before, 1, duration_secs),
                             None)
            ELSE LET reps == parse_i32(trim(text.v))
                     duration_secs == num_seconds(clock - state.start_time)
                 IN  IF ~reps.some THEN Outcome(state, None)
                     ELSE Outcome(WaitingForPulseAfter(state.exercise_id,
                                        state.exercise_name, state.pulse_before,
                                        reps.v, duration_secs),
                                  None)
      [] state.tag = "WaitingForPulseAfter" ->
            IF ~text.some THEN Outcome(state, None)
            ELSE LET pulse_after == parse_i32(trim(text.v))
                     training == Training(state.exercise_name, clock, state.reps,
                                          Some(state.duration_secs))
                 IN  IF ~pulse_after.some THEN Outcome(state, None)
                     ELSE IF pulse_out_of_range(pulse_after.v) THEN Outcome(state, None)
                     ELSE IF ~stored THEN Outcome(state, None)
                     ELSE IF ~delivered THEN Outcome(state, Some(training))
                     ELSE Outcome(State_Start, Some(training))
      [] OTHER ->
            IF access = "LimitReached" /\ delivered
            THEN Outcome(WaitingForOwnerMessage, None)
            ELSE Outcome(state, None)

\* The data of a callback query is a prefix and what follows it;
\* data.strip_prefix("ex:")
strip_prefix(data, prefix) == IF data[1] = prefix THEN Some(data[2]) ELSE None

\* handle_callback: the State it leaves.  dialogue.update precedes the edit
\* of the message, so no failure of the edit undoes it.
handle_callback(state, access, data) ==
    IF access = "LimitReached" THEN state
    ELSE LET exercise_id == strip_prefix(data, "ex:")
             i == IF exercise_id.some THEN find_exercise(exercise_id.v) ELSE 0
         IN  IF i = 0 THEN state
             ELSE WaitingForPulseBefore(exercise_id.v, get_all_exercises[i].name)

\* handle_command: the State it leaves; only a user over the limit of users
\* changes it
handle_command(state, access, delivered) ==
    IF access = "LimitReached" /\ delivered THEN WaitingForOwnerMessage ELSE state

\* the texts a user sends
Texts ==
    {<<"a", "b", "c">>, <<"2", "9">>, <<" ", "3", "0", " ">>,
     <<"2", "5", "0">>, <<"2", "5", "1">>,
     <<"9", "9", "9", "9", "9", "9", "9", "9", "9", "9", "9">>}

Messages == {Some(t) : t \in Texts} \cup {NoText}

CallbackData ==
    {<<"ex:", "pushups_fist">>, <<"ex:", "plank_elbows">>, <<"ex:", "no such id">>,
     <<"show_all", "">>}

\* a count of the rows written since the dialogue last left Start
Counted(count, before, row) ==
    (IF before.tag = "Start" THEN 0 ELSE count) + (IF row THEN 1 ELSE 0)

InitDialogue ==
    /\ now = StartClock
    /\ db = <<>>
    /\ rec = NoRecommendation
    /\ asked = NotAsked
    /\ session = NoSession
    /\ goal = NoGoal
    /\ tracker = NoTracker
    /\ core = NoCore
    /\ dialogue \in {DialogueOf(access) : access \in {"Allowed", "LimitReached"}}
    /\ compared = NoCompared

\* A message that is no command reaches handle_message.  The step keeps the
\* two answers of the environment where the outcome depends on them.
MessageReceived(text, delivered, stored) ==
    \E o \in {handle_message(dialogue.state, dialogue.access, text, now, delivered, stored)},
       undelivered \in {handle_message(dialogue.state, dialogue.access, text, now,
                                       ~delivered, stored)},
       unstored \in {handle_message(dialogue.state, dialogue.access, text, now,
                                    delivered, ~stored)} :
        /\ o.row.some => Len(db) < MaxDialogueRows
        /\ db' = IF o.row.some THEN add_training(db, o.row.v) ELSE db
        /\ dialogue' =
              [state |-> o.state, access |-> dialogue.access,
               step |-> [handler |-> "handle_message", text |-> text,
                         delivered |->
                            \/ delivered
                            \/ (o.state = undelivered.state
                                    /\ o.row.some = undelivered.row.some),
                         stored |->
                            \/ stored
                            \/ (o.state = unstored.state
                                    /\ o.row.some = unstored.row.some),
                         before |-> dialogue.state, wrote |-> o.row.some],
               written |-> Counted(dialogue.written, dialogue.state, o.row.some),
               undelivered |-> Counted(dialogue.undelivered, dialogue.state,
                                       o.row.some /\ ~delivered)]
        /\ UNCHANGED <<now, rec, asked, session, goal, tracker, core, compared>>

\* a button of a keyboard was pressed
CallbackReceived(data) ==
    /\ dialogue' =
          [state |-> handle_callback(dialogue.state, dialogue.access, data),
           access |-> dialogue.access,
           step |-> [handler |-> "handle_callback", text |-> NoText,
                     delivered |-> TRUE, stored |-> TRUE,
                     before |-> dialogue.state, wrote |-> FALSE],
           written |-> Counted(dialogue.written, dialogue.state, FALSE),
           undelivered |-> Counted(dialogue.undelivered, dialogue.state, FALSE)]
    /\ UNCHANGED <<db, now, rec, asked, session, goal, tracker, core, compared>>

\* a command was sent
CommandReceived(delivered) ==
    /\ dialogue' =
          [state |-> handle_command(dialogue.state, dialogue.access, delivered),
           access |-> dialogue.access,
           step |-> [handler |-> "handle_command", text |-> NoText,
                     delivered |-> delivered \/ dialogue.access # "LimitReached",
                     stored |-> TRUE,
                     before |-> dialogue.state, wrote |-> FALSE],
           written |-> Counted(dialogue.written, dialogue.state, FALSE),
           undelivered |-> Counted(dialogue.undelivered, dialogue.state, FALSE)]
    /\ UNCHANGED <<db, now, rec, asked, session, goal, tracker, core, compared>>

\* the clock advances between two updates
Elapse ==
    /\ now < StartClock + MaxDialogueTicks
    /\ now' = now + 1
    /\ UNCHANGED <<db, dialogue, rec, asked, session, goal, tracker, core, compared>>

NextDialogue ==
    \/ \E text \in Messages, delivered \in BOOLEAN, stored \in BOOLEAN :
            MessageReceived(text, delivered, stored)
    \/ \E data \in CallbackData : CallbackReceived(data)
    \/ \E delivered \in BOOLEAN : CommandReceived(delivered)
    \/ Elapse

SpecDialogue == InitDialogue /\ [][NextDialogue]_vars

----------------------------------------------------------------------------
(* Properties of the recommender, under Spec *)

\* the rows of an exercise, and what the log says of it at the clock
RowsOf(name) == {i \in DOMAIN db : db[i].exercise = name}
DoneToday(name) ==
    \E i \in RowsOf(name) :
        date_naive(db[i].date, LocalOffset) = date_naive(now, LocalOffset)
WithinTheHour(name) == \E i \in RowsOf(name) : now - db[i].date < HOUR
BaseNames == {BASE_EXERCISES[i].name : i \in DOMAIN BASE_EXERCISES}
BonusNames == {EXTRA_EXERCISES[i].name : i \in DOMAIN EXTRA_EXERCISES}
MiddleNames == BaseNames \ {WARMUP_NAME, COOLDOWN_NAME}
NeverPerformed == {name \in BonusNames : RowsOf(name) = {}}
Targeted(name, groups) ==
    Cardinality(Range(get_all_exercises[find_exercise_by_name(name)].muscle_groups)
                    \cap groups)

\* C1: the exercise get_recommendation returns has no record, on any date,
\* dated less than one hour before the clock.
C1_RestedWhenRecommended ==
    (asked.called /\ rec.some) => ~WithinTheHour(rec.exercise)

\* C1 witness: the warm-up was performed within the hour on the day before,
\* and another exercise is returned.
C1_Witness ==
    /\ asked.called /\ rec.some
    /\ WithinTheHour(WARMUP_NAME) /\ ~DoneToday(WARMUP_NAME)
    /\ rec.exercise # WARMUP_ID

\* C2, as the spec states it: get_recommendation returns a Recommendation,
\* never an absent result, for every log and every clock.
C2_AlwaysSome == asked.called => rec.some

\* C2, amended: get_recommendation returns a Recommendation for every log
\* none of whose records is dated less than one hour before the clock, the
\* empty log among them.
C2_SomeWhenAllRested ==
    (asked.called /\ \A i \in DOMAIN db : now - db[i].date >= HOUR) => rec.some

\* C2 witness: a Recommendation is returned over a log that is not empty and
\* all of whose records are at least one hour old.
C2_Witness ==
    /\ asked.called /\ rec.some
    /\ db # <<>>
    /\ \A i \in DOMAIN db : now - db[i].date >= HOUR
    /\ \E name \in BaseNames : DoneToday(name)

\* C3: when the warm-up has no record dated today and was never performed
\* or was last performed at least one hour ago, get_recommendation returns
\* the warm-up with is_bonus = false and confidence 1.0.
C3_WarmupFirst ==
    (asked.called /\ ~DoneToday(WARMUP_NAME) /\ ~WithinTheHour(WARMUP_NAME))
        => /\ rec.some
           /\ rec.exercise = WARMUP_ID
           /\ ~rec.is_bonus
           /\ rec.confidence = ConfidenceScale

\* C3 witness: the warm-up is returned a day after it was last performed,
\* an hour or more ago.
C3_Witness ==
    /\ asked.called /\ rec.some /\ rec.exercise = WARMUP_ID
    /\ RowsOf(WARMUP_NAME) # {}
    /\ ~DoneToday(WARMUP_NAME)

\* C4: a bonus recommendation (is_bonus, a non-base entry) is returned only
\* when every base exercise has a record dated today; while a base exercise
\* has none, what is returned is a base exercise with no record dated today
\* and is_bonus = false.
C4_BonusOnlyAfterBase ==
    (asked.called /\ rec.some) =>
        /\ (rec.is_bonus \/ rec.exercise \notin BaseNames)
                => \A name \in BaseNames : DoneToday(name)
        /\ (\E name \in BaseNames : ~DoneToday(name))
                => /\ rec.exercise \in BaseNames
                   /\ ~DoneToday(rec.exercise)
                   /\ ~rec.is_bonus

\* C4 witness: a bonus recommendation is returned.
C4_Witness ==
    /\ asked.called /\ rec.some /\ rec.is_bonus
    /\ rec.exercise \in BonusNames

\* C5: from a log with no record dated today and no base exercise performed
\* within the hour, when each recommended exercise is logged at the clock of
\* its request before the next request, the recommendations are the warm-up,
\* then the six middle base exercises once each, then the cool-down, and
\* from then on bonus exercises.
C5_ProgramOrder ==
    (asked.called /\ session.active) =>
        /\ session.count = 0 => (rec.some /\ rec.exercise = WARMUP_ID)
        /\ session.count \in 1..6
                => /\ rec.some
                   /\ rec.exercise \in MiddleNames
                   /\ rec.exercise \notin session.logged
        /\ session.count = 7 => (rec.some /\ rec.exercise = COOLDOWN_ID)
        /\ (session.count >= 8 /\ rec.some)
                => (rec.is_bonus /\ rec.exercise \in BonusNames)

\* C5 witness: the eight base exercises were recommended and logged in a
\* session and a bonus exercise is returned.
C5_Witness ==
    /\ asked.called /\ session.active /\ session.count >= 8
    /\ rec.some /\ rec.is_bonus

\* C6, as the spec states it: when get_recommendation returns the cool-down,
\* every other base exercise has a record dated today.
C6_CooldownLast ==
    (asked.called /\ rec.some /\ rec.exercise = COOLDOWN_ID)
        => \A name \in BaseNames \ {COOLDOWN_NAME} : DoneToday(name)

\* C7: with the base program done today and a non-base entry never
\* performed, the exercise returned is a never-performed non-base entry that
\* targets at least as many of the underworked groups of that call as every
\* other never-performed non-base entry.
C7_NeverPerformedFirst ==
    (asked.called /\ (\A name \in BaseNames : DoneToday(name)) /\ NeverPerformed # {})
        => /\ rec.some
           /\ rec.exercise \in NeverPerformed
           /\ \A name \in NeverPerformed :
                Targeted(rec.exercise, asked.underworked)
                    >= Targeted(name, asked.underworked)

\* C7 witness: in bonus mode a never-performed entry is returned that
\* targets more underworked groups than another never-performed entry.
C7_Witness ==
    /\ asked.called /\ rec.some /\ rec.is_bonus
    /\ rec.exercise \in NeverPerformed
    /\ \E name \in NeverPerformed :
            Targeted(rec.exercise, asked.underworked)
                > Targeted(name, asked.underworked)

\* C8, as the spec states it: over one log at one clock get_underworked_groups
\* returns the same groups and get_recommendation the same result on every
\* invocation, also when muscle groups tie on today_volume.
C8_Deterministic ==
    asked.called =>
        \A underworked \in get_underworked_groups(
                from_trainings(get_trainings_for_user(db), now, LocalOffset), 5) :
            /\ underworked = asked.underworked
            /\ get_recommendation(get_trainings_for_user(db), now, LocalOffset,
                                  underworked) = rec

----------------------------------------------------------------------------
(* Properties of the goal calculator, under SpecGoal *)

\* a training reaches the value: its reps, or for a timed exercise its duration
Reaches(t, is_timed, value) ==
    IF is_timed THEN t.duration_secs.some /\ t.duration_secs.v >= value
    ELSE t.reps >= value

\* C9: is_consolidating is false when the exercise has no record; true while
\* fewer than 7 days have passed since record_date; and after 7 days or more
\* true exactly when no record of the exercise within the last 7 days
\* reached or exceeded personal_best.
C9_Consolidating ==
    (goal.called /\ goal.result.some) =>
        LET g == goal.result.v
            elapsed == now - g.record_date.v
            window == RECORD_CONSOLIDATION_DAYS * DAY
        IN  /\ ~g.personal_best.some => ~g.is_consolidating
            /\ (g.personal_best.some /\ elapsed < window) => g.is_consolidating
            /\ (g.personal_best.some /\ elapsed >= window)
                    => (g.is_consolidating <=>
                            ~\E i \in RowsOf(goal.exercise_name) :
                                /\ now - db[i].date <= window
                                /\ Reaches(db[i], g.is_timed, g.personal_best.v))

\* C9 witness: 7 days or more after record_date the personal best was
\* reached again within the last 7 days and is_consolidating is false.
C9_Witness ==
    /\ goal.called /\ goal.result.some
    /\ goal.result.v.personal_best.some
    /\ now - goal.result.v.record_date.v > RECORD_CONSOLIDATION_DAYS * DAY
    /\ ~goal.result.v.is_consolidating

C11_TargetAndDaysLeft ==
    (goal.called /\ goal.result.some) =>
        LET g == goal.result.v
        IN  /\ g.beat_record_target.some
                <=> (g.personal_best.some /\ ~g.is_consolidating)
            /\ g.beat_record_target.some
                => g.beat_record_target.v = g.personal_best.v + 1
            /\ g.consolidation_days_left.some <=> g.is_consolidating
            /\ g.consolidation_days_left.some
                => g.consolidation_days_left.v
                     = 7 - (((now - g.record_date.v) \div DAY) % 7)

\* C11 witness: one goal with a challenge and no days left, reached with a
\* log that also yields a consolidating goal for the other exercise.
C11_Witness ==
    /\ goal.called /\ goal.result.some
    /\ goal.result.v.beat_record_target.some
    /\ ~goal.result.v.consolidation_days_left.some
    /\ \E e \in GoalExercises :
            LET other == calculate(db, e, now)
            IN  other.v.is_consolidating /\ other.v.consolidation_days_left.v < 7

\* the whole days that have passed at the clock since a timestamp not after it
WholeDaysSince(t) ==
    CHOOSE k \in 0..HistoryDays : k * DAY <= now - t /\ now - t < (k + 1) * DAY

\* C29: in every ProgressGoal with is_consolidating true,
\* consolidation_days_left is an integer between 1 and 7 inclusive, and it is
\* 7 minus the whole days since record_date during the first 7 days after the
\* record.
C29_DaysLeftCountdown ==
    (goal.called /\ goal.result.some /\ goal.result.v.is_consolidating) =>
        LET g == goal.result.v
        IN  /\ g.consolidation_days_left.some
            /\ g.consolidation_days_left.v \in 1..7
            /\ now - g.record_date.v < 7 * DAY
                => g.consolidation_days_left.v = 7 - WholeDaysSince(g.record_date.v)

\* C29 witness: a consolidating goal whose record is one tick less than seven
\* days old, with one day left, beside a log that gives the other exercise a
\* consolidating goal whose record is more than seven days old.
C29_Witness ==
    /\ goal.called /\ goal.result.some /\ goal.result.v.is_consolidating
    /\ now - goal.result.v.record_date.v = 7 * DAY - 1
    /\ goal.result.v.consolidation_days_left = Some(1)
    /\ \E e \in GoalExercises :
            LET other == calculate(db, e, now)
            IN  /\ other.v.is_consolidating
                /\ now - other.v.record_date.v > 7 * DAY
                /\ other.v.consolidation_days_left.v \in 1..7

\* the value a row achieved: its duration for a timed exercise, its reps
\* otherwise
Achieved(t, is_timed) == IF is_timed THEN unwrap_or(t.duration_secs, 0) ELSE t.reps

\* the appended row exceeds the personal best its exercise had before it
AppendedNewRecord ==
    /\ goal.appended.some
    /\ goal.appended.v.before.some
    /\ goal.appended.v.before.v.personal_best.some
    /\ Achieved(goal.appended.v.row, goal.appended.v.before.v.is_timed)
            > goal.appended.v.before.v.personal_best.v

\* C12: right after a record is appended whose value strictly exceeds the
\* personal best, personal_best is the new value, record_date is the new
\* record's timestamp, is_consolidating is true and beat_record_target is
\* absent, also when the challenge for the previous best was unlocked.
C12_NewRecordResets ==
    (/\ goal.called
     /\ AppendedNewRecord
     /\ goal.exercise_name = goal.appended.v.row.exercise)
        => LET g == goal.result.v
               row == goal.appended.v.row
           IN  /\ g.personal_best = Some(Achieved(row, g.is_timed))
               /\ g.record_date = Some(row.date)
               /\ g.is_consolidating
               /\ ~g.beat_record_target.some

\* C12 witness: the challenge for the previous personal best was unlocked,
\* a record exceeding it was appended and the goal was calculated again.
C12_Witness ==
    /\ goal.called
    /\ AppendedNewRecord
    /\ goal.exercise_name = goal.appended.v.row.exercise
    /\ goal.appended.v.before.v.beat_record_target.some
    /\ goal.result.v.is_consolidating

\* the rows of the goal's exercise that achieved a value: all of them for an
\* exercise counted in reps, those with a duration for a timed one
Valued(is_timed) ==
    {i \in RowsOf(goal.exercise_name) : is_timed => db[i].duration_secs.some}

\* C13: for any records of an exercise, in any order and with any spacing,
\* personal_best is the maximum achieved value (duration for a timed
\* exercise, reps otherwise) and record_date is the earliest timestamp among
\* the records that achieved that maximum.
C13_PersonalBest ==
    (goal.called /\ goal.result.some) =>
        LET g == goal.result.v
            valued == Valued(g.is_timed)
        IN  /\ g.personal_best.some <=> valued # {}
            /\ g.record_date.some <=> valued # {}
            /\ valued # {} =>
                /\ \E i \in valued : Achieved(db[i], g.is_timed) = g.personal_best.v
                /\ \A i \in valued : Achieved(db[i], g.is_timed) <= g.personal_best.v
                /\ \E i \in valued :
                        /\ Achieved(db[i], g.is_timed) = g.personal_best.v
                        /\ db[i].date = g.record_date.v
                /\ \A i \in valued :
                        Achieved(db[i], g.is_timed) = g.personal_best.v
                            => g.record_date.v <= db[i].date
            /\ \A p \in Permutations(DOMAIN db) :
                    LET best == find_personal_best_with_date(
                                    [i \in DOMAIN db |-> db[p[i]]],
                                    goal.exercise_name, g.is_timed)
                    IN  IF best.some
                        THEN /\ g.personal_best = Some(best.v.value)
                             /\ g.record_date = Some(best.v.date)
                        ELSE ~g.personal_best.some /\ ~g.record_date.some

\* C13 witness: the maximum was achieved twice, days apart, with a lower
\* value achieved in between, and record_date is the earlier of the two.
C13_Witness ==
    /\ goal.called /\ goal.result.some /\ goal.result.v.personal_best.some
    /\ \E i, j, k \in RowsOf(goal.exercise_name) :
            /\ db[i].date = goal.result.v.record_date.v
            /\ db[i].date + DAY < db[k].date
            /\ db[k].date + DAY < db[j].date
            /\ Achieved(db[i], goal.result.v.is_timed) = goal.result.v.personal_best.v
            /\ Achieved(db[j], goal.result.v.is_timed) = goal.result.v.personal_best.v
            /\ Achieved(db[k], goal.result.v.is_timed) < goal.result.v.personal_best.v

\* C14, as the spec states it: with an empty log calculate returns, for any
\* exercise, a goal of Low confidence, zero fatigue factor and
\* target_value = 10 + 1 = 11.
C14_EmptyLogEleven ==
    (goal.called /\ db = <<>> /\ goal.result.some) =>
        /\ goal.result.v.confidence = "Low"
        /\ goal.result.v.fatigue_factor = 0
        /\ goal.result.v.target_value = 11

\* C14, amended: with an empty log calculate returns a goal for every name
\* of the catalog, of Low confidence and zero fatigue factor, with
\* target_value 11 for an exercise counted in reps and 61 for a timed one.
C14_EmptyLogDefault ==
    (goal.called /\ db = <<>>) =>
        /\ goal.result.some <=> goal.exercise_name \in AllNames
        /\ goal.result.some =>
            /\ goal.result.v.confidence = "Low"
            /\ goal.result.v.fatigue_factor = 0
            /\ goal.result.v.target_value = IF goal.result.v.is_timed THEN 61 ELSE 11

\* C14 witness: the goal of a timed exercise was calculated on the empty log.
C14_Witness ==
    /\ goal.called /\ db = <<>> /\ goal.result.some
    /\ goal.result.v.is_timed
    /\ goal.result.v.target_value = 61

\* the calendar day of a timestamp for the goal calculator
MoscowDay(t) == date_naive(t, moscow_tz)

\* no two records dated before today have the same timestamp
DistinctPastTimestamps ==
    \A i, j \in DOMAIN db :
        (i # j /\ db[i].date = db[j].date) => MoscowDay(db[i].date) = MoscowDay(now)

\* the session context before the i-th record: that of the records of its
\* calendar day that precede it in time
ContextBefore(i) ==
    SessionContext(SelectSeq(db, LAMBDA t :
        MoscowDay(t.date) = MoscowDay(db[i].date) /\ t.date < db[i].date))

\* the occurrences of the goal's exercise on days before today whose context
\* is similar to today's
SimilarOccurrences ==
    {i \in RowsOf(goal.exercise_name) :
        /\ MoscowDay(db[i].date) < MoscowDay(now)
        /\ 2 * compute_similarity(ContextBefore(i), build_current_context(db, now))
                >= FloatScale}

RECURSIVE SetSum(_, _)
SetSum(S, f) ==
    IF S = {} THEN 0
    ELSE LET x == CHOOSE x \in S : TRUE
         IN  f[x] + SetSum(S \ {x}, f)

\* the similarity of an occurrence to today's context, the values matched
\* and the mean of the values weighted by similarity, plus 1, rounded
SimilarityOf(i) == compute_similarity(ContextBefore(i), build_current_context(db, now))
MatchedValues ==
    {Achieved(db[i], goal.result.v.is_timed) : i \in SimilarOccurrences}
WeightedMeanPlusOne ==
    LET sim == [i \in SimilarOccurrences |-> SimilarityOf(i)]
        value_times_sim ==
            [i \in SimilarOccurrences |->
                Achieved(db[i], goal.result.v.is_timed) * SimilarityOf(i)]
        total == SetSum(SimilarOccurrences, sim)
    IN  Round(SetSum(SimilarOccurrences, value_times_sim) + total, total)

----------------------------------------------------------------------------
(* Properties of the muscle tracker, under SpecTracker *)

\* the volume the tracker holds for a group
TodayVolume(g) == tracker.loads[g].today_volume
WeekVolume(g) == tracker.loads[g].week_volume
Scored == MuscleGroups \ {"FullBody"}

\* C15, as the spec states it: for every muscle group and every log the
\* tracker reports week_volume >= today_volume.
C15_WeekAtLeastToday ==
    tracker.called => \A g \in MuscleGroups : WeekVolume(g) >= TodayVolume(g)

\* the log without its i-th row
Without(rows, i) == SubSeq(rows, 1, i - 1) \o SubSeq(rows, i + 1, Len(rows))

\* C16: a record whose exercise name matches no catalog entry changes no
\* group's today_volume, week_volume or last_trained and no balance score:
\* the tracker of a log holding one is the tracker of the log without it.
C16_UnknownSkipped ==
    tracker.called =>
        \A i \in DOMAIN db :
            db[i].exercise \notin AllNames =>
                LET less == from_trainings(get_trainings_for_user(Without(db, i)),
                                           now, LocalOffset)
                IN  /\ \A g \in MuscleGroups :
                            /\ less[g].today_volume = TodayVolume(g)
                            /\ less[g].week_volume = WeekVolume(g)
                            /\ less[g].last_trained = tracker.loads[g].last_trained
                    /\ get_balance_score(less) = tracker.balance_score

\* C16 witness: the log holds a record of no catalog entry, dated today,
\* beside records that load muscle groups today.
C16_Witness ==
    /\ tracker.called
    /\ \E i \in DOMAIN db : db[i].exercise \notin AllNames /\ db[i].date = now
    /\ \E g \in Scored : TodayVolume(g) > 0
    /\ tracker.balance_score > 0

\* C17: get_underworked_groups(limit) returns min(limit, 10) distinct muscle
\* groups, never FullBody, in ascending order of today_volume, none of them
\* with more today_volume than a group other than FullBody it left out.
C17_Underworked ==
    tracker.called =>
        LET u == tracker.underworked
        IN  /\ Len(u) = IF tracker.limit < 10 THEN tracker.limit ELSE 10
            /\ \A j, k \in DOMAIN u : j # k => u[j] # u[k]
            /\ \A k \in DOMAIN u : u[k] \in Scored
            /\ \A j, k \in DOMAIN u : j < k => TodayVolume(u[j]) <= TodayVolume(u[k])
            /\ \A k \in DOMAIN u : \A g \in Scored \ Range(u) :
                    TodayVolume(u[k]) <= TodayVolume(g)

\* C17 witness: five groups were asked for, the groups returned differ in
\* volume, a group left out has more than each of them and FullBody, which
\* is left out, has less than one of them.
C17_Witness ==
    /\ tracker.called /\ tracker.limit = 5 /\ Len(tracker.underworked) = 5
    /\ TodayVolume(tracker.underworked[1]) < TodayVolume(tracker.underworked[5])
    /\ \E g \in Scored \ Range(tracker.underworked) :
            TodayVolume(g) > TodayVolume(tracker.underworked[5])
    /\ TodayVolume("FullBody") < TodayVolume(tracker.underworked[5])

\* C18: get_balance_score is within [0, 100], and is 0 whenever the week
\* volume of every group other than FullBody is 0.
C18_BalanceRange ==
    tracker.called =>
        /\ 0 <= tracker.balance_score /\ tracker.balance_score <= 100
        /\ (\A g \in Scored : WeekVolume(g) = 0) => tracker.balance_score = 0

\* C18 witness: the log is not empty, FullBody was worked this week and
\* every other group has week volume 0; the score is 0.
C18_Witness ==
    /\ tracker.called
    /\ \E i \in DOMAIN db : db[i].exercise \in AllNames /\ db[i].exercise # "taiji_shadow"
    /\ WeekVolume("FullBody") > 0
    /\ \A g \in Scored : WeekVolume(g) = 0
    /\ tracker.balance_score = 0

\* the exercises of the log, and the balance score of some rows at the clock
NamesIn == {db[i].exercise : i \in DOMAIN db}
BalanceOf(rows) ==
    get_balance_score(from_trainings(get_trainings_for_user(rows), now, LocalOffset))

\* C19, as the spec states it: adding work on a second exercise with
\* different target muscles strictly increases the balance score.  The log
\* holds two exercises of disjoint target muscles, none of them FullBody,
\* every row with positive reps and dated today; its score is compared with
\* that of the rows of either exercise alone.
C19_VarietyStrictlyHigher ==
    tracker.called =>
        \A e1, e2 \in NamesIn \cap AllNames :
            (/\ NamesIn = {e1, e2}
             /\ muscles_of(e1) \cap muscles_of(e2) = {}
             /\ muscles_of(e1) \cup muscles_of(e2) \subseteq Scored
             /\ \A i \in DOMAIN db : db[i].reps > 0 /\ db[i].date = now)
                => tracker.balance_score > BalanceOf(of_exercise(db, e1))

RECURSIVE WeekSquares(_, _)
WeekSquares(loads, k) ==
    IF k = 0 THEN 0
    ELSE WeekSquares(loads, k - 1)
            + (IF MuscleGroup_all[k] \in Scored
               THEN loads[MuscleGroup_all[k]].week_volume
                        * loads[MuscleGroup_all[k]].week_volume
               ELSE 0)

WeekTotal(loads) == sum_week_volumes(loads, Len(MuscleGroup_all))

\* C19, amended: the rows of a single exercise score 0 when their week
\* volumes sum to 0 or more (100 when to less); a log of two or more
\* catalog exercises scores strictly higher than the rows of one of them
\* exactly when that one scores 0 and the week volumes of the log either sum
\* to a negative number or have a standard deviation below their positive
\* mean (five times the sum of their squares is below the square of their
\* sum).
C19_VarietyHigherWhenEven ==
    (tracker.called /\ NamesIn \subseteq AllNames /\ Cardinality(NamesIn) >= 2) =>
        \A e1 \in NamesIn :
            LET single == from_trainings(get_trainings_for_user(of_exercise(db, e1)),
                                         now, LocalOffset)
                total == WeekTotal(tracker.loads)
            IN  /\ get_balance_score(single)
                        = IF WeekTotal(single) >= 0 THEN 0 ELSE 100
                /\ tracker.balance_score > get_balance_score(single)
                    <=> /\ WeekTotal(single) >= 0
                        /\ \/ total < 0
                           \/ /\ total > 0
                              /\ 5 * WeekSquares(tracker.loads, Len(MuscleGroup_all))
                                    < total * total

\* C19 witness: push-ups and squats, both with positive reps this week,
\* score above 0, which is the score of the push-ups alone.
C19_Witness ==
    /\ tracker.called
    /\ NamesIn = {"pushups_fist", "squats_strikes"}
    /\ \A i \in DOMAIN db : db[i].reps > 0 /\ db[i].date = now
    /\ BalanceOf(of_exercise(db, "pushups_fist")) = 0
    /\ tracker.balance_score > 0

----------------------------------------------------------------------------
(* Properties of the core computations and the log, under SpecCore *)

EligibleMiddle == {name \in MiddleNames : ~DoneToday(name) /\ ~WithinTheHour(name)}

\* 0.5 + (underworked target muscles / target muscles) if one of the target
\* muscles is underworked and 0.3 otherwise, times ConfidenceScale
ScoreOf(name) ==
    LET muscles == get_all_exercises[find_exercise_by_name(name)].muscle_groups
        count == Targeted(name, asked.underworked)
    IN  IF count > 0
        THEN ConfidenceScale \div 2 + (count * ConfidenceScale) \div Len(muscles)
        ELSE (3 * ConfidenceScale) \div 10

\* C22: when the warm-up is done today or not rest-satisfied and a middle
\* base exercise is eligible (not performed today, rest-satisfied), the
\* exercise returned is an eligible middle base exercise, its confidence is
\* its score, and no eligible middle exercise has a strictly higher score.
C22_BestMiddle ==
    (/\ asked.called
     /\ DoneToday(WARMUP_NAME) \/ WithinTheHour(WARMUP_NAME)
     /\ EligibleMiddle # {})
        => /\ rec.some
           /\ ~rec.is_bonus
           /\ rec.exercise \in EligibleMiddle
           /\ rec.confidence = ScoreOf(rec.exercise)
           /\ \A name \in EligibleMiddle : ScoreOf(name) <= ScoreOf(rec.exercise)

\* C22 witness: the warm-up was performed within the hour on the day before,
\* the push-ups today; of the eligible middle exercises one scores 0.3 and
\* the one returned scores more.
C22_Witness ==
    /\ asked.called /\ rec.some
    /\ WithinTheHour(WARMUP_NAME) /\ ~DoneToday(WARMUP_NAME)
    /\ DoneToday("pushups_fist")
    /\ rec.exercise \in EligibleMiddle
    /\ \E name \in EligibleMiddle :
            /\ ScoreOf(name) = (3 * ConfidenceScale) \div 10
            /\ ScoreOf(name) < ScoreOf(rec.exercise)

----------------------------------------------------------------------------
(* Further properties of the muscle tracker, under SpecTracker *)

\* the sum of the reps of the records of a catalog exercise targeting the
\* group whose local calendar date is today or one of the days_back days
\* before it
VolumeWithin(g, days_back) ==
    LET today == date_naive(now, LocalOffset)
    IN  sum_reps(SelectSeq(db, LAMBDA t :
            /\ g \in muscles_of(t.exercise)
            /\ date_naive(t.date, LocalOffset) <= today
            /\ date_naive(t.date, LocalOffset) >= today - days_back))

\* C23, as the spec states it: week_volume(g) is the sum of reps over
\* exactly the catalog-matched records targeting g dated within the trailing
\* 7 calendar days counted inclusive of today (today and the six days before
\* it), records dated outside that window contribute nothing, and
\* today_volume(g) is the same sum over the records dated today.
C23_WeekWindow ==
    tracker.called =>
        \A g \in MuscleGroups :
            /\ WeekVolume(g) = VolumeWithin(g, 6)
            /\ TodayVolume(g) = VolumeWithin(g, 0)

----------------------------------------------------------------------------
(* Properties of compute_similarity, under SpecSimilarity *)

\* the loads of the shifted muscle before and after the shift: moved is the
\* load that was changed, fixed the load of the other context
LoadsOf(context) == {context.prior_load[m] : m \in DOMAIN context.prior_load}
ShiftedLoad(historical, current) ==
    IF compared.before.v.side = "historical"
    THEN historical.prior_load[compared.before.v.muscle]
    ELSE current.prior_load[compared.before.v.muscle]
FixedLoad ==
    IF compared.before.v.side = "historical"
    THEN compared.current.prior_load[compared.before.v.muscle]
    ELSE compared.historical.prior_load[compared.before.v.muscle]
MovedFrom == ShiftedLoad(compared.before.v.historical, compared.before.v.current)
MovedTo == ShiftedLoad(compared.historical, compared.current)
AllLoads ==
    LoadsOf(compared.historical) \cup LoadsOf(compared.current)
        \cup (IF compared.before.some
              THEN LoadsOf(compared.before.v.historical)
                    \cup LoadsOf(compared.before.v.current)
              ELSE {})

\* C24, as the spec states it: compute_similarity of two contexts with no
\* load in any muscle is 1.0, and for contexts sharing a muscle the
\* similarity strictly decreases as the absolute load difference in that
\* muscle increases, all other loads held fixed.  The loads are all taken
\* positive here.
C24_DecreasesWithDifference ==
    compared.called =>
        /\ (LoadsOf(compared.historical) \cup LoadsOf(compared.current)) \subseteq {0}
                => compared.similarity = FloatScale
        /\ (/\ compared.before.some
            /\ \A load \in AllLoads : load >= 1
            /\ Abs(MovedTo - FixedLoad) > Abs(MovedFrom - FixedLoad))
                => compared.similarity < compared.before.v.similarity

\* C24, amended: compute_similarity of two contexts with no load in any
\* muscle is 1.0; when no load is negative and, in a muscle both contexts
\* have, one load moves further from the other load, which stays fixed and is
\* at least 1, without crossing it, all other loads held fixed, the
\* similarity strictly decreases.
C24_DecreasesWithRelativeDifference ==
    compared.called =>
        /\ (LoadsOf(compared.historical) \cup LoadsOf(compared.current)) \subseteq {0}
                => compared.similarity = FloatScale
        /\ (/\ compared.before.some
            /\ \A load \in AllLoads : load >= 0
            /\ FixedLoad >= 1
            /\ \/ MovedFrom >= FixedLoad /\ MovedTo > MovedFrom
               \/ MovedFrom <= FixedLoad /\ MovedTo < MovedFrom)
                => compared.similarity < compared.before.v.similarity

\* C24 witness: both contexts have two muscles with loads that differ, one
\* load of a muscle was raised further above the other context's load and
\* the similarity fell, staying above 0.
C24_Witness ==
    /\ compared.called /\ compared.before.some
    /\ DOMAIN compared.historical.prior_load = SimilarityMuscles
    /\ DOMAIN compared.current.prior_load = SimilarityMuscles
    /\ \A load \in AllLoads : load >= 1
    /\ \A m \in SimilarityMuscles :
            compared.before.v.historical.prior_load[m]
                # compared.before.v.current.prior_load[m]
    /\ MovedFrom > FixedLoad /\ MovedTo > MovedFrom
    /\ 0 < compared.similarity
    /\ compared.similarity < compared.before.v.similarity

----------------------------------------------------------------------------
(* Properties of the goal over time, under SpecTime *)

\* the challenge is unlocked in a goal
Unlocked(g) == ~g.is_consolidating /\ g.beat_record_target.some

\* calculate was applied at the clock to the log, after an earlier call for
\* the same exercise that returned an unlocked challenge, and the personal
\* best is what it was then: no record exceeding it was appended
StillThatBest ==
    /\ goal.called /\ goal.result.some /\ goal.earlier.some
    /\ Unlocked(goal.earlier.v.result)
    /\ goal.result.v.personal_best = goal.earlier.v.result.personal_best

\* C27, as the spec states it: once the beat-record challenge has been
\* unlocked for a personal best, it stays unlocked at every later query time
\* as long as no record exceeding that personal best is appended; the
\* passage of time never returns the goal to the consolidating state.
C27_StaysUnlocked == StillThatBest => Unlocked(goal.result.v)

\* C27, amended: once the challenge has been unlocked for a personal best,
\* at every later query time with that personal best it is unlocked exactly
\* when some record of the exercise dated within the last 7 days reached or
\* exceeded the personal best; when the last such record is more than 7 days
\* old the goal is consolidating again.
C27_UnlockedWhileConfirmed ==
    StillThatBest =>
        (Unlocked(goal.result.v) <=>
            \E i \in RowsOf(goal.exercise_name) :
                /\ now - db[i].date <= RECORD_CONSOLIDATION_DAYS * DAY
                /\ Reaches(db[i], goal.result.v.is_timed, goal.result.v.personal_best.v))

\* C27 witness: the challenge was unlocked, time passed with nothing logged
\* and the goal is consolidating again for the same personal best.
C27_Witness ==
    /\ StillThatBest
    /\ goal.earlier.v.at < now
    /\ \A i \in DOMAIN db : db[i].date <= goal.earlier.v.at
    /\ goal.result.v.is_consolidating
    /\ ~goal.result.v.beat_record_target.some

\* an absent personal best is below every personal best
BestBelow(a, b) == b.some /\ (a.some => a.v < b.v)

\* C28: as records are appended to the log with non-decreasing timestamps,
\* personal_best never decreases and record_date changes only when
\* personal_best strictly increases; appending records that equal or fall
\* below the personal best leaves both unchanged.
C28_BestNeverDecreases ==
    (goal.called /\ goal.result.some /\ goal.earlier.some) =>
        LET g == goal.result.v
            e == goal.earlier.v.result
        IN  /\ g.personal_best = e.personal_best \/ BestBelow(e.personal_best, g.personal_best)
            /\ g.record_date # e.record_date => BestBelow(e.personal_best, g.personal_best)
            /\ (/\ e.personal_best.some
                /\ \A i \in RowsOf(goal.exercise_name) :
                        db[i].date >= goal.earlier.v.at
                            => ~Reaches(db[i], g.is_timed, e.personal_best.v + 1))
                    => (g.personal_best = e.personal_best /\ g.record_date = e.record_date)

\* C28 witness: after the earlier call, days later, a record equal to the
\* personal best was appended, and personal_best and record_date are what
\* they were.
C28_Witness ==
    /\ goal.called /\ goal.result.some /\ goal.earlier.some
    /\ goal.earlier.v.result.personal_best.some
    /\ \E i \in RowsOf(goal.exercise_name) :
            /\ db[i].date > goal.earlier.v.at
            /\ db[i].date > goal.result.v.record_date.v + DAY
            /\ Achieved(db[i], goal.result.v.is_timed) = goal.result.v.personal_best.v
    /\ goal.result.v.personal_best = goal.earlier.v.result.personal_best
    /\ goal.result.v.record_date = goal.earlier.v.result.record_date

----------------------------------------------------------------------------
(* Properties of the logging dialogue, under SpecDialogue *)

\* the texts that spell a pulse in 30..250, and the texts that spell a number
PulseTexts == {<<" ", "3", "0", " ">>, <<"2", "5", "0">>}

NumberTexts ==
    PulseTexts
    \cup {<<"2", "9">>, <<"2", "5", "1">>,
          <<"9", "9", "9", "9", "9", "9", "9", "9", "9", "9", "9">>}

\* the last update was a message whose text spells a pulse in 30..250
SentPulse ==
    /\ dialogue.step.handler = "handle_message"
    /\ dialogue.step.text.some
    /\ dialogue.step.text.v \in PulseTexts

\* the last update was a message that spells no number
SentWords ==
    /\ dialogue.step.handler = "handle_message"
    /\ dialogue.step.text.some => dialogue.step.text.v \notin NumberTexts

\* the last update was a message received in a state of that tag
ReceivedIn(tag) ==
    dialogue.step.handler = "handle_message" /\ dialogue.step.before.tag = tag

\* the last update left the dialogue as it was and wrote nothing
LeftAlone == dialogue.state = dialogue.step.before /\ ~dialogue.step.wrote

\* the last update completed a pass
CompletedPass ==
    dialogue.step.before.tag = "WaitingForPulseAfter" /\ dialogue.state.tag = "Start"

\* the exercise of the state before the last update is a timed one
TimedBefore ==
    LET i == find_exercise_by_name(dialogue.step.before.exercise_name)
    IN  i # 0 /\ get_all_exercises[i].is_timed

\* C30, as the spec states it: in the bot's logging dialogue a training
\* record is written only by the step that receives a numeric pulse in
\* 30..250 while in WaitingForPulseAfter, exactly one record per completed
\* pass Start -> WaitingForPulseBefore -> WaitingForReps ->
\* WaitingForPulseAfter -> Start; a non-numeric or out-of-range input in any
\* waiting state leaves the dialogue state unchanged and writes no record.
C30_LoggingDialogue ==
    /\ dialogue.step.wrote => (ReceivedIn("WaitingForPulseAfter") /\ SentPulse)
    /\ CompletedPass => dialogue.written = 1
    /\ (ReceivedIn("WaitingForPulseBefore") /\ ~SentPulse) => LeftAlone
    /\ (ReceivedIn("WaitingForPulseAfter") /\ ~SentPulse) => LeftAlone
    /\ (ReceivedIn("WaitingForReps") /\ SentWords) => LeftAlone

\* C30, amended: a training record is written only by a step that receives
\* a numeric pulse in 30..250 while in WaitingForPulseAfter, and every such
\* step whose save succeeds writes it; the step returns the dialogue to Start
\* when its confirmation is delivered and leaves it in WaitingForPulseAfter
\* when it is not, so a completed pass has written one record and one more
\* for every confirmation that was not delivered.  A non-numeric or
\* out-of-range input leaves the state unchanged and writes nothing in
\* WaitingForPulseBefore and in WaitingForPulseAfter, and so does a
\* non-numeric input in WaitingForReps of a rep-based exercise; in
\* WaitingForReps of a timed exercise every text, numeric or not, moves the
\* dialogue to WaitingForPulseAfter with reps = 1 and writes nothing.
C30_LoggingDialogueTimed ==
    /\ dialogue.step.wrote => (ReceivedIn("WaitingForPulseAfter") /\ SentPulse)
    /\ (ReceivedIn("WaitingForPulseAfter") /\ SentPulse)
            => /\ dialogue.step.wrote <=> dialogue.step.stored
               /\ dialogue.state.tag = "Start"
                    <=> (dialogue.step.stored /\ dialogue.step.delivered)
               /\ dialogue.state.tag # "Start" => dialogue.state = dialogue.step.before
    /\ CompletedPass => dialogue.written = 1 + dialogue.undelivered
    /\ (ReceivedIn("WaitingForPulseBefore") /\ ~SentPulse) => LeftAlone
    /\ (ReceivedIn("WaitingForPulseAfter") /\ ~SentPulse) => LeftAlone
    /\ (ReceivedIn("WaitingForReps") /\ ~TimedBefore /\ SentWords) => LeftAlone
    /\ (ReceivedIn("WaitingForReps") /\ TimedBefore)
            => IF dialogue.step.text.some
               THEN /\ dialogue.state.tag = "WaitingForPulseAfter"
                    /\ dialogue.state.reps = 1
                    /\ dialogue.state.exercise_name = dialogue.step.before.exercise_name
                    /\ ~dialogue.step.wrote
               ELSE LeftAlone

\* C30 witness: a pass has written a record, and in a later pass a text that
\* spells no number, received in WaitingForReps of a timed exercise, has moved
\* the dialogue to WaitingForPulseAfter.
C30_Witness ==
    /\ Len(db) >= 1
    /\ ReceivedIn("WaitingForReps") /\ TimedBefore
    /\ dialogue.step.text = Some(<<"a", "b", "c">>)
    /\ dialogue.state.tag = "WaitingForPulseAfter"
    /\ dialogue.written = 0

====
